---------------------------- MODULE Spec2Model ----------------------------
(***************************************************************************)
(* Image identification and credit-attribution detection of the credit     *)
(* checker: the parallel perceptual-similarity search                      *)
(* (library/image_utils.py), the word-boundary keyword matcher and the     *)
(* text sources (library/credit_checker.py), and the detection pipeline    *)
(* (checker.py).                                                           *)
(*                                                                         *)
(* Three specifications share the module:                                  *)
(*   SpecSearch  find_image_by_similarity / calculate_image_similarity_    *)
(*               batch with its worker pool, one step per thread action    *)
(*   SpecMatch   matches_keyword_with_word_boundary as a pure function     *)
(*   SpecDetect  check_image_credits, one step per text source             *)
(***************************************************************************)
EXTENDS Integers, Sequences, FiniteSets, TLC

VARIABLES
    \* ---- similarity search (SpecSearch) ----
    entry,                \* "find": find_image_by_similarity; "batch": a direct call of the batch search
    images,               \* the page's <img> elements (find)
    target_url,           \* URL of the target image
    compare_urls,         \* the candidate URLs handed to the batch search
    similarity_threshold, \* threshold, in hundredths
    max_workers,          \* size of the thread pool
    spc,                  \* position of the calling thread
    fstate,               \* per future: "pending" | "running" | "finished" | "cancelled"
    fresult,              \* per future: the tuple check_single_similarity returned
    yielded,              \* futures as_completed has handed to the loop
    results,              \* the results list
    cancel_i,             \* position of the cancellation loop in future_to_url
    returned,             \* what the batch search returned
    found,                \* what find_image_by_similarity returned
    late_started,         \* the futures a thread took after the loop was handed a match
    \* ---- keyword matcher (SpecMatch) ----
    m_keyword,            \* the keyword argument
    m_text,               \* the text argument
    m_result,             \* what matches_keyword_with_word_boundary returned
    m_credit,             \* what contains_credit returned: found, keyword
    mpc,                  \* "call" before the call, "done" after it
    \* ---- caption check (SpecCaptions) ----
    c_captions,           \* the page's caption elements
    c_image,              \* whether an image element is passed
    c_found,              \* found_keywords as returned
    c_page_scanned,       \* the page-wide scan ran to its end
    cpc,                  \* "call" before the call, "done" after it
    \* ---- detection pipeline (SpecDetect) ----
    dpc,                  \* position in check_image_credits
    image_element,        \* None or the located element
    located_by,           \* "none" | "url" | "similarity"
    all_keywords,         \* all_keywords
    primary_keywords,     \* all_keywords as the fallback test read it
    impressum_called,     \* check_impressum_for_credits was called
    impressum_visited,    \* the driver loaded the impressum page
    impressum_page_text,  \* the body text read from the impressum page, None before
    d_results,            \* the results dict
    ocr_available,        \* OCR_AVAILABLE or EASYOCR_AVAILABLE
    consulted,            \* the sources read so far: source, keywords, failed
    all_texts,            \* the texts the scroll method has just collected
    locate_calls,         \* the tries to locate the image: by, hit
    \* ---- daily CSV (SpecDaily) ----
    daily_exists,         \* the daily CSV file exists
    daily_lines,          \* its lines
    daily_tmp,            \* the lines of the temporary file, None when there is none
    daily_lock,           \* the process that holds the lock of the lock file, 0 for none
    save_pc,              \* per process: its position in save_case_to_daily_csv
    save_existing,        \* per process: existing_data
    save_calls,           \* per process: the calls it has completed
    \* ---- overall CSV (SpecOverall) ----
    lock_path,            \* the file output/.overall_csv.lock leads to, 0 when there is none
    flock_owner,          \* per file: the process that holds its lock, "none" for none
    overall_csv,          \* the case ids of the rows of output/overall_checked_claims.csv
    upd_pc,               \* per process: its position in safe_update_overall_csv
    upd_fd,               \* per process: the file its lock_f is open on, 0 when closed
    upd_merged,           \* per process: merged_data
    wait_time,            \* per process: wait_time
    upd_depth,            \* per process: the calls of safe_update_overall_csv around the current one
    \* ---- hits (SpecHits) ----
    input_csv,            \* the rows of the input CSV
    output_exists,        \* the output CSV exists
    output_csv,           \* the rows of the output CSV, after its header
    hpc,                  \* "idle" between runs of process_hits, "loop" inside the loop over the rows
    h_idx,                \* position of the loop in the input rows
    existing_results,     \* existing_results: per processed hit its row
    h_run,                \* the runs of process_hits started so far
    checked_hits,         \* the hits check_image_credits_func was called for in this run
    output_before,        \* the rows the output CSV had when this run started
    run_completed         \* this run reached its end

search_vars == <<entry, images, target_url, compare_urls, similarity_threshold,
                 max_workers, spc, fstate, fresult, yielded, results, cancel_i,
                 returned, found, late_started>>

\* None, for what is an element or a text when it is there
None == <<>>

match_vars == <<m_keyword, m_text, m_result, m_credit, mpc>>

caption_vars == <<c_captions, c_image, c_found, c_page_scanned, cpc>>

detect_vars == <<dpc, image_element, located_by, all_keywords, primary_keywords,
                 impressum_called, impressum_visited, impressum_page_text, d_results, ocr_available,
                 consulted, all_texts, locate_calls>>

daily_vars == <<daily_exists, daily_lines, daily_tmp, daily_lock, save_pc,
                save_existing, save_calls>>

overall_vars == <<lock_path, flock_owner, overall_csv, upd_pc, upd_fd, upd_merged,
                  wait_time, upd_depth>>

hits_vars == <<input_csv, output_exists, output_csv, hpc, h_idx, existing_results,
               h_run, checked_hits, output_before, run_completed>>

file_vars == <<daily_vars, overall_vars, hits_vars>>

vars == <<search_vars, match_vars, caption_vars, detect_vars, file_vars>>

\* what the steps of one part leave alone: the variables of the other parts
not_search_vars == <<match_vars, caption_vars, detect_vars, file_vars>>
not_match_vars == <<search_vars, caption_vars, detect_vars, file_vars>>
not_caption_vars == <<search_vars, match_vars, detect_vars, file_vars>>
not_detect_vars == <<search_vars, match_vars, caption_vars, file_vars>>
not_file_vars == <<search_vars, match_vars, caption_vars, detect_vars>>
not_daily_vars == <<not_file_vars, overall_vars, hits_vars>>
not_overall_vars == <<not_file_vars, daily_vars, hits_vars>>
not_hits_vars == <<not_file_vars, daily_vars, overall_vars>>

Max(a, b) == IF a >= b THEN a ELSE b
Min(a, b) == IF a <= b THEN a ELSE b

SeqsUpTo(S, n) == UNION {[1..k -> S] : k \in 0..n}

(***************************************************************************)
(* Bounds of the model.                                                    *)
(***************************************************************************)
MaxCandidates == 3
MaxPoolSize == 2
MaxTextLen == 5
MaxCaptions == 2
MaxNodes == 2
MaxImgs == 2
MaxProcs == 2
MaxCalls == 2
MaxRetries == 1
MaxRows == 2
MaxRuns == 2

(***************************************************************************)
(* Perceptual hashes.  dhash and ahash return a string of hex digits, two  *)
(* per 8 bits: hash_size * hash_size / 4 characters.                       *)
(***************************************************************************)
hash_size == 8
HexLen == (hash_size * hash_size) \div 4
Infinity == 1000000

Hex(d, n) == [i \in 1..n |-> d]
\* n leading digits e, the rest d
HexMix(e, k, d, n) == [i \in 1..n |-> IF i <= k THEN e ELSE d]

\* What a URL serves: nothing (the download fails: loads is FALSE), an image
\* that cannot be hashed (dhash and ahash return None, the empty string here),
\* or an image with its two hashes.
NoImage == [loads |-> FALSE, dh |-> <<>>, ah |-> <<>>]

Content(url) ==
    CASE url = "target.jpg" -> [loads |-> TRUE, dh |-> Hex(0, HexLen), ah |-> Hex(15, HexLen)]
      [] url = "same.jpg"   -> [loads |-> TRUE, dh |-> Hex(0, HexLen), ah |-> Hex(15, HexLen)]
      [] url = "near.png"   -> [loads |-> TRUE, dh |-> HexMix(1, 4, 0, HexLen),
                                ah |-> HexMix(14, 4, 15, HexLen)]
      [] url = "other.jpg"  -> [loads |-> TRUE, dh |-> Hex(7, HexLen), ah |-> Hex(8, HexLen)]
      [] url = "zero.webp"  -> [loads |-> TRUE, dh |-> <<>>, ah |-> <<>>]
      [] OTHER              -> NoImage

VALID_EXTENSIONS == {".jpg", ".jpeg", ".png", ".webp"}

\* src.lower().endswith(VALID_EXTENSIONS), on the URLs of the model
Extension(url) ==
    CASE url \in {"target.jpg", "same.jpg", "other.jpg", "gone.jpg"} -> ".jpg"
      [] url = "near.png" -> ".png"
      [] url = "zero.webp" -> ".webp"
      [] url = "icon.svg" -> ".svg"
      [] OTHER -> ""

HasValidExtension(url) == Extension(url) \in VALID_EXTENSIONS

download_image_as_pil(url) == Content(url)

dhash(image) == image.dh

ahash(image) == image.ah

\* not hash1 or not hash2 or len(hash1) != len(hash2): inf; else the number of
\* positions at which the two strings differ
hamming_distance(hash1, hash2) ==
    IF Len(hash1) = 0 \/ Len(hash2) = 0 \/ Len(hash1) # Len(hash2) THEN Infinity
    ELSE Cardinality({i \in 1..Len(hash1) : hash1[i] # hash2[i]})

(***************************************************************************)
(* Scores.  avg_similarity = ((1 - dd/max) + (1 - ad/max)) / 2 with        *)
(* max = len(target_dhash) * 4 is kept exactly, as the numerator over      *)
(* ScoreDen(target_dhash) = 2 * max; the threshold is in hundredths.       *)
(***************************************************************************)
max_distance(target_dhash) == Len(target_dhash) * 4

ScoreDen(target_dhash) == 2 * max_distance(target_dhash)

ThresholdDen == 100

avg_similarity(target_dhash, target_ahash, compare_dhash, compare_ahash) ==
    LET dhash_distance == hamming_distance(target_dhash, compare_dhash)
        ahash_distance == hamming_distance(target_ahash, compare_ahash)
    IN  IF dhash_distance = Infinity \/ ahash_distance = Infinity
        THEN 0 - Infinity
        ELSE (max_distance(target_dhash) - dhash_distance)
             + (max_distance(target_dhash) - ahash_distance)

\* a score has to exceed the threshold
MeetsThreshold_strict(score, target_dhash, threshold) ==
    score * ThresholdDen > threshold * ScoreDen(target_dhash)

\* the comparison turned round
MeetsThreshold_below(score, target_dhash, threshold) ==
    score * ThresholdDen <= threshold * ScoreDen(target_dhash)

\* avg_similarity >= similarity_threshold
MeetsThreshold(score, target_dhash, threshold) ==
    score * ThresholdDen >= threshold * ScoreDen(target_dhash)

\* check_single_similarity without its two "if not ..." returns
check_single_similarity_unguarded(compare_url, target_dhash, target_ahash, threshold) ==
    LET compare_img == download_image_as_pil(compare_url)
        s == avg_similarity(target_dhash, target_ahash,
                            dhash(compare_img), ahash(compare_img))
    IN  [url |-> compare_url, score |-> s,
         is_match |-> MeetsThreshold(s, target_dhash, threshold)]

check_single_similarity(compare_url, target_dhash, target_ahash, threshold) ==
    LET compare_img == download_image_as_pil(compare_url)
    IN  IF ~compare_img.loads
        THEN [url |-> compare_url, score |-> 0, is_match |-> FALSE]
        ELSE IF dhash(compare_img) = <<>> \/ ahash(compare_img) = <<>>
        THEN [url |-> compare_url, score |-> 0, is_match |-> FALSE]
        ELSE LET s == avg_similarity(target_dhash, target_ahash,
                                     dhash(compare_img), ahash(compare_img))
             IN  [url |-> compare_url, score |-> s,
                  is_match |-> MeetsThreshold(s, target_dhash, threshold)]

\* The target can be downloaded and hashed.
TargetReadable(url) ==
    /\ download_image_as_pil(url).loads
    /\ dhash(download_image_as_pil(url)) # <<>>
    /\ ahash(download_image_as_pil(url)) # <<>>

(***************************************************************************)
(* results.sort(key=lambda x: x[1], reverse=True): a stable sort, highest  *)
(* score first.                                                            *)
(***************************************************************************)
RECURSIVE InsertByScore(_, _)
InsertByScore(sorted, r) ==
    IF sorted = <<>> THEN <<r>>
    ELSE IF Head(sorted).score >= r.score
         THEN <<Head(sorted)>> \o InsertByScore(Tail(sorted), r)
         ELSE <<r>> \o sorted

\* the list left in collection order
SortByScore_unsorted(rs) == rs

RECURSIVE SortByScore(_)
SortByScore(rs) ==
    IF rs = <<>> THEN <<>>
    ELSE InsertByScore(SortByScore(SubSeq(rs, 1, Len(rs) - 1)), rs[Len(rs)])

(***************************************************************************)
(* find_image_by_similarity: the URLs to check, in page order, each img's  *)
(* src first and then the URLs of its srcset, and the map back from a URL  *)
(* to the element that listed it last.                                     *)
(***************************************************************************)
ImgUrls(img) ==
    (IF HasValidExtension(img.src) THEN <<img.src>> ELSE <<>>)
        \o SelectSeq(img.srcset, HasValidExtension)

RECURSIVE urls_to_check(_)
urls_to_check(imgs) ==
    IF imgs = <<>> THEN <<>>
    ELSE urls_to_check(SubSeq(imgs, 1, Len(imgs) - 1)) \o ImgUrls(imgs[Len(imgs)])

InSeq(x, s) == \E i \in 1..Len(s) : s[i] = x

\* url_to_element.get(url): an element is named by its position on the page,
\* <<i>>; None is <<>>
url_to_element(imgs, url) ==
    LET holders == {i \in 1..Len(imgs) : InSeq(url, ImgUrls(imgs[i]))}
    IN  IF holders = {} THEN None
        ELSE <<CHOOSE i \in holders : \A j \in holders : j <= i>>

\* the top entry taken whether it matched or not
FirstMatch_top(rs) == IF rs = <<>> THEN 0 ELSE 1

\* for url, similarity, is_match in results: if is_match: return url_to_element.get(url)
FirstMatch(rs) ==
    LET hits == {i \in 1..Len(rs) : rs[i].is_match}
    IN  IF hits = {} THEN 0 ELSE CHOOSE i \in hits : \A j \in hits : i <= j

(***************************************************************************)
(* calculate_image_similarity: the batch search on the one candidate with  *)
(* one worker, and the is_match of its first result.                       *)
(***************************************************************************)
\* calculate_image_similarity_batch(target_url, [compare_url], threshold, 1):
\* with one future there is one order of completion
single_candidate_batch(target, compare_url, threshold) ==
    IF ~TargetReadable(target) THEN <<>>
    ELSE <<check_single_similarity(compare_url,
                                   dhash(download_image_as_pil(target)),
                                   ahash(download_image_as_pil(target)),
                                   threshold)>>

calculate_image_similarity(target, compare_url, threshold) ==
    LET rs == single_candidate_batch(target, compare_url, threshold)
    IN  IF rs # <<>> THEN rs[1].is_match ELSE FALSE

(***************************************************************************)
(* Inputs of the search.                                                   *)
(***************************************************************************)
CandidateUrls == {"same.jpg", "near.png", "other.jpg", "gone.jpg", "zero.webp"}
TargetUrls == {"target.jpg", "gone.jpg", "zero.webp"}
Thresholds == {0, 85}
PageImgs ==
    {[src |-> u, srcset |-> <<>>] : u \in {"same.jpg", "other.jpg", "gone.jpg", "icon.svg"}}
    \cup {[src |-> "", srcset |-> <<"same.jpg">>],
          [src |-> "other.jpg", srcset |-> <<"icon.svg", "near.png">>]}

Futures == 1..Len(compare_urls)

Running == {i \in DOMAIN fstate : fstate[i] = "running"}
Pending == {i \in DOMAIN fstate : fstate[i] = "pending"}

SearchInit ==
    /\ entry \in {"find", "batch"}
    /\ target_url \in TargetUrls
    /\ similarity_threshold \in Thresholds
    /\ max_workers \in 1..MaxPoolSize
    /\ \/ /\ entry = "find"
          /\ images \in SeqsUpTo(PageImgs, MaxImgs)
          /\ Len(urls_to_check(images)) <= MaxCandidates
          /\ compare_urls = <<>>
          /\ spc = "find"
       \/ /\ entry = "batch"
          /\ images = <<>>
          /\ compare_urls \in SeqsUpTo(CandidateUrls, MaxCandidates)
          /\ spc = "batch"
    /\ fstate = <<>>
    /\ fresult = <<>>
    /\ yielded = {}
    /\ results = <<>>
    /\ cancel_i = 0
    /\ returned = <<>>
    /\ found = None
    /\ late_started = {}

\* The returns of the batch search that precede the submission of the tasks.
EarlyReturn_no_target_check(urls, target) == urls = <<>>

EarlyReturn(urls, target) == urls = <<>> \/ ~TargetReadable(target)

\* Where the collecting loop goes after appending a result: into the
\* cancellation loop on a match, out of the loop after the last future.
AfterResult_no_break(result, all_yielded) ==
    IF all_yielded THEN "shutdown" ELSE "collect"

AfterResult(result, all_yielded) ==
    IF result.is_match THEN "cancel"
    ELSE IF all_yielded THEN "shutdown" ELSE "collect"

\* find_image_by_similarity up to its call of the batch search
FindCollectUrls ==
    /\ spc = "find"
    /\ compare_urls' = urls_to_check(images)
    /\ IF urls_to_check(images) = <<>>
       THEN spc' = "done" /\ found' = None
       ELSE spc' = "batch" /\ found' = found
    /\ UNCHANGED <<entry, images, target_url, similarity_threshold, max_workers,
                   fstate, fresult, yielded, results, cancel_i, returned, late_started>>
    /\ UNCHANGED not_search_vars

\* calculate_image_similarity_batch up to the submission of the tasks
BatchStart ==
    /\ spc = "batch"
    /\ IF EarlyReturn(compare_urls, target_url)
       THEN /\ returned' = <<>>
            /\ spc' = "returned"
            /\ fstate' = fstate
       ELSE /\ fstate' = [i \in Futures |-> "pending"]
            /\ spc' = "collect"
            /\ returned' = returned
    /\ UNCHANGED <<entry, images, target_url, compare_urls, similarity_threshold,
                   max_workers, fresult, yielded, results, cancel_i, found, late_started>>
    /\ UNCHANGED not_search_vars

\* A pool thread takes the oldest work item that was not cancelled.
WorkerStart(i) ==
    /\ spc \in {"collect", "cancel", "shutdown"}
    /\ i \in Pending
    /\ \A j \in Pending : i <= j
    /\ Cardinality(Running) < max_workers
    /\ fstate' = [fstate EXCEPT ![i] = "running"]
    /\ late_started' = IF spc = "collect" THEN late_started ELSE late_started \cup {i}
    /\ UNCHANGED <<entry, images, target_url, compare_urls, similarity_threshold,
                   max_workers, spc, fresult, yielded, results, cancel_i, returned, found>>
    /\ UNCHANGED not_search_vars

\* The thread's call of check_single_similarity returns.
WorkerFinish(i) ==
    /\ i \in Running
    /\ fstate' = [fstate EXCEPT ![i] = "finished"]
    /\ fresult' = fresult @@ (i :> check_single_similarity(
                       compare_urls[i],
                       dhash(download_image_as_pil(target_url)),
                       ahash(download_image_as_pil(target_url)),
                       similarity_threshold))
    /\ UNCHANGED <<entry, images, target_url, compare_urls, similarity_threshold,
                   max_workers, spc, yielded, results, cancel_i, returned, found, late_started>>
    /\ UNCHANGED not_search_vars

\* One turn of "for future in as_completed(future_to_url)".
Collect(i) ==
    /\ spc = "collect"
    /\ i \in DOMAIN fstate \ yielded
    /\ fstate[i] = "finished"
    /\ yielded' = yielded \cup {i}
    /\ results' = Append(results, fresult[i])
    /\ spc' = AfterResult(fresult[i], yielded' = Futures)
    /\ cancel_i' = IF spc' = "cancel" THEN 1 ELSE cancel_i
    /\ UNCHANGED <<entry, images, target_url, compare_urls, similarity_threshold,
                   max_workers, fstate, fresult, returned, found, late_started>>
    /\ UNCHANGED not_search_vars

\* the loop leaving every future as it is
CancelIfNotDone_never(state) == state

\* "if not f.done(): f.cancel()": a future that no thread has taken becomes
\* cancelled; cancel() on a running future returns False and changes nothing
CancelIfNotDone(state) == IF state = "pending" THEN "cancelled" ELSE state

\* One turn of "for f in future_to_url: if not f.done(): f.cancel()".
CancelStep ==
    /\ spc = "cancel"
    /\ IF cancel_i > Len(compare_urls)
       THEN /\ spc' = "shutdown"
            /\ UNCHANGED <<fstate, cancel_i>>
       ELSE /\ fstate' = [fstate EXCEPT ![cancel_i] = CancelIfNotDone(fstate[cancel_i])]
            /\ cancel_i' = cancel_i + 1
            /\ spc' = spc
    /\ UNCHANGED <<entry, images, target_url, compare_urls, similarity_threshold,
                   max_workers, fresult, yielded, results, returned, found, late_started>>
    /\ UNCHANGED not_search_vars

\* The with block is left once the pool's threads are idle; sort and return.
BatchReturn ==
    /\ spc = "shutdown"
    /\ Running = {} /\ Pending = {}
    /\ returned' = SortByScore(results)
    /\ spc' = "returned"
    /\ UNCHANGED <<entry, images, target_url, compare_urls, similarity_threshold,
                   max_workers, fstate, fresult, yielded, results, cancel_i, found, late_started>>
    /\ UNCHANGED not_search_vars

\* find_image_by_similarity after the batch search returned
FindReturn ==
    /\ spc = "returned"
    /\ entry = "find"
    /\ found' = IF FirstMatch(returned) = 0 THEN None
                ELSE url_to_element(images, returned[FirstMatch(returned)].url)
    /\ spc' = "done"
    /\ UNCHANGED <<entry, images, target_url, compare_urls, similarity_threshold,
                   max_workers, fstate, fresult, yielded, results, cancel_i, returned, late_started>>
    /\ UNCHANGED not_search_vars

SearchNext ==
    \/ FindCollectUrls
    \/ BatchStart
    \/ \E i \in Futures : WorkerStart(i)
    \/ \E i \in Futures : WorkerFinish(i)
    \/ \E i \in Futures : Collect(i)
    \/ CancelStep
    \/ BatchReturn
    \/ FindReturn

SearchIdle ==
    /\ entry = "batch" /\ images = <<>> /\ target_url = "target.jpg"
    /\ compare_urls = <<>> /\ similarity_threshold = 85 /\ max_workers = 1
    /\ spc = "idle" /\ fstate = <<>> /\ fresult = <<>> /\ yielded = {}
    /\ results = <<>> /\ cancel_i = 0 /\ returned = <<>> /\ found = None
    /\ late_started = {}

(***************************************************************************)
(* Texts are sequences of characters.                                      *)
(***************************************************************************)
UpperCase == <<"A", "B", "C", "D", "E", "F", "G", "H", "I", "J", "K", "L", "M",
               "N", "O", "P", "Q", "R", "S", "T", "U", "V", "W", "X", "Y", "Z">>
LowerCase == <<"a", "b", "c", "d", "e", "f", "g", "h", "i", "j", "k", "l", "m",
               "n", "o", "p", "q", "r", "s", "t", "u", "v", "w", "x", "y", "z">>
Digits == {"0", "1", "2", "3", "4", "5", "6", "7", "8", "9"}

Range(f) == {f[i] : i \in DOMAIN f}

\* the lower-case letter of every upper-case letter
LowerOf == [c \in Range(UpperCase) |->
               LowerCase[CHOOSE i \in DOMAIN UpperCase : UpperCase[i] = c]]

\* str.lower() of one character
LowerChar(c) == IF c \in DOMAIN LowerOf THEN LowerOf[c] ELSE c

\* str.lower()
Lower(t) == [i \in 1..Len(t) |-> LowerChar(t[i])]

\* \w: a letter, a digit or the underscore
WordChars == Range(UpperCase) \cup Range(LowerCase) \cup Digits \cup {"_"}

IsWordChar(c) == c \in WordChars

\* the character at position p of t is a word character (FALSE outside t)
WordAt(t, p) == p \in 1..Len(t) /\ IsWordChar(t[p])

\* \b between positions p and p + 1 of t: exactly one side is a word character
WordBoundary(t, p) == WordAt(t, p) # WordAt(t, p + 1)

\* the literal pattern pat at position s of t, under re.IGNORECASE
LiteralAt(pat, t, s) ==
    /\ s >= 1
    /\ s + Len(pat) - 1 <= Len(t)
    /\ \A j \in 1..Len(pat) : LowerChar(t[s + j - 1]) = LowerChar(pat[j])

\* the matcher with the closing \b left out of the pattern
matches_keyword_without_closing_boundary(keyword, text) ==
    IF keyword = <<>> \/ text = <<>> THEN FALSE
    ELSE \E s \in 1..Len(text) :
            /\ WordBoundary(text, s - 1)
            /\ LiteralAt(Lower(keyword), text, s)

\* re.search(r'\b' + re.escape(keyword.lower()) + r'\b', text, re.IGNORECASE)
matches_keyword_with_word_boundary(keyword, text) ==
    IF keyword = <<>> \/ text = <<>> THEN FALSE
    ELSE \E s \in 1..Len(text) :
            /\ WordBoundary(text, s - 1)
            /\ LiteralAt(Lower(keyword), text, s)
            /\ WordBoundary(text, s + Len(keyword) - 1)

(***************************************************************************)
(* CREDIT_KEYWORDS: entries of the list, in its order; "ap photo" and      *)
(* "epa images" are listed twice, as they are there.                       *)
(***************************************************************************)
kw_getty == <<"g", "e", "t", "t", "y">>
kw_ap_photo == <<"a", "p", " ", "p", "h", "o", "t", "o">>
kw_123rf == <<"1", "2", "3", "r", "f">>
kw_freepik_com == <<"f", "r", "e", "e", "p", "i", "k", ".", "c", "o", "m">>
kw_getty_images == <<"g", "e", "t", "t", "y", " ", "i", "m", "a", "g", "e", "s">>
kw_afp == <<"a", "f", "p">>
kw_epa == <<"e", "p", "a">>
kw_epa_images == <<"e", "p", "a", " ", "i", "m", "a", "g", "e", "s">>
kw_vii == <<"v", "i", "i">>

CREDIT_KEYWORDS ==
    <<kw_getty, kw_ap_photo, kw_123rf, kw_freepik_com, kw_getty_images, kw_afp,
      kw_epa, kw_epa_images, kw_vii, kw_epa_images, kw_ap_photo>>

(***************************************************************************)
(* Texts for the matcher: every text of at most MaxTextLen characters over *)
(* a small alphabet, and the texts of the documentation.                   *)
(***************************************************************************)
MatchAlphabet == {"v", "i", "I", "t", "_", " ", "("}

txt_viitoare == <<"v", "i", "i", "t", "o", "a", "r", "e">>
txt_vii_paren == <<"(", "v", "i", "i", ")">>
txt_vii_comma == <<"v", "i", "i", ",">>
txt_vii_space == <<"v", "i", "i", " ">>
txt_photo_vii == <<"P", "h", "o", "t", "o", " ", "(", "v", "i", "i", ")", " ", "c", "r", "e", "d", "i", "t">>
txt_getty_images == <<"I", "m", "a", "g", "e", " ", "c", "r", "e", "d", "i", "t", ":", " ", "G", "e", "t", "t", "y", " ", "I", "m", "a", "g", "e", "s">>
txt_ap_photo == <<"A", "P", " ", "P", "h", "o", "t", "o", "/", "d", "p", "a">>
txt_snapshot == <<"s", "n", "a", "p", " ", "p", "h", "o", "t", "o", " ", "1", "2", "3", "r", "f", "_">>
txt_freepik == <<"w", "w", "w", ".", "f", "r", "e", "e", "p", "i", "k", ".", "c", "o", "m", "/", "e", "p", "a", "-", "i", "m", "a", "g", "e", "s">>

SampleTexts ==
    {txt_viitoare, txt_vii_paren, txt_vii_comma, txt_vii_space, txt_photo_vii,
     txt_getty_images, txt_ap_photo, txt_snapshot, txt_freepik}

(***************************************************************************)
(* contains_credit of creditcheck_main.py: an Aho-Corasick automaton over  *)
(* that file's own keyword list, of which these are entries; the first hit *)
(* of automaton.iter on the lower-cased text is returned.                  *)
(***************************************************************************)
kw_freepik == <<"f", "r", "e", "e", "p", "i", "k">>

MAIN_CREDIT_KEYWORDS == <<kw_getty, kw_ap_photo, kw_123rf, kw_freepik, kw_freepik_com>>

\* the automaton's hits on a text: <<end_idx, idx>> for every place a keyword
\* of the list, lower-cased, ends in the text
AutomatonHits(text) ==
    {h \in (1..Len(text)) \X DOMAIN MAIN_CREDIT_KEYWORDS :
        LET kw == Lower(MAIN_CREDIT_KEYWORDS[h[2]])
            s == h[1] - Len(kw) + 1
        IN  /\ s >= 1
            /\ \A j \in 1..Len(kw) : text[s + j - 1] = kw[j]}

\* the first hit iter yields: the smallest end_idx, and of the keywords that
\* end there the longest
FirstHit(hits) ==
    CHOOSE h \in hits :
        \A g \in hits :
            \/ h[1] < g[1]
            \/ /\ h[1] = g[1]
               /\ Len(MAIN_CREDIT_KEYWORDS[h[2]]) >= Len(MAIN_CREDIT_KEYWORDS[g[2]])

NoCredit == [found |-> FALSE, keyword |-> None]

contains_credit(text) ==
    IF text = <<>> THEN NoCredit
    ELSE LET hits == AutomatonHits(Lower(text))
         IN  IF hits = {} THEN NoCredit
             ELSE [found |-> TRUE, keyword |-> MAIN_CREDIT_KEYWORDS[FirstHit(hits)[2]]]

MatchInit ==
    /\ \/ /\ m_keyword \in Range(CREDIT_KEYWORDS)
          /\ m_text \in SampleTexts
       \/ /\ m_keyword = kw_vii
          /\ m_text \in SeqsUpTo(MatchAlphabet, MaxTextLen)
    /\ m_result = FALSE
    /\ m_credit = NoCredit
    /\ mpc = "call"

MatchIdle ==
    /\ m_keyword = <<>> /\ m_text = <<>> /\ m_result = FALSE
    /\ m_credit = NoCredit /\ mpc = "idle"

\* the call matches_keyword_with_word_boundary(keyword, text)
ApplyMatch ==
    /\ mpc = "call"
    /\ m_result' = matches_keyword_with_word_boundary(m_keyword, m_text)
    /\ mpc' = "done"
    /\ UNCHANGED <<m_keyword, m_text, m_credit>>
    /\ UNCHANGED not_match_vars

\* the call contains_credit(text)
ApplyContains ==
    /\ mpc = "call"
    /\ m_credit' = contains_credit(m_text)
    /\ mpc' = "contains_done"
    /\ UNCHANGED <<m_keyword, m_text, m_result>>
    /\ UNCHANGED not_match_vars

MatchNext ==
    \/ ApplyMatch
    \/ ApplyContains

(***************************************************************************)
(* Keyword scans of the text sources.  An entry of a keyword list is a     *)
(* string: the source's prefix and the keyword.                            *)
(***************************************************************************)
pre_scrolled == <<"S", "c", "r", "o", "l", "l", "e", "d", " ", "T", "e", "x", "t", ":", " ">>
pre_parent == <<"P", "a", "r", "e", "n", "t", " ", "E", "l", "e", "m", "e", "n", "t", ":", " ">>
pre_image_caption == <<"I", "m", "a", "g", "e", " ", "C", "a", "p", "t", "i", "o", "n", ":", " ">>
pre_page_caption == <<"P", "a", "g", "e", " ", "C", "a", "p", "t", "i", "o", "n", ":", " ">>
pre_ocr == <<"O", "C", "R", ":", " ">>

\* "for keyword in CREDIT_KEYWORDS: if matches...: ...; break": the first
\* entry of the dictionary that matches, None when none does
txt_plain == <<"v", "i", "i", "t", "o", "a", "r", "e", " ", "p", "e", " ", "s", "i", "t", "e">>
txt_getty_credit == <<"F", "o", "t", "o", ":", " ", "G", "e", "t", "t", "y", " ", "I", "m", "a", "g", "e", "s">>
txt_afp_epa == <<"(", "A", "F", "P", "/", "E", "P", "A", ")">>
txt_short == <<"v", "i">>
txt_epa_images == <<"E", "P", "A", " ", "I", "m", "a", "g", "e", "s">>
txt_image_credit == <<"I", "m", "a", "g", "e", " ", "c", "r", "e", "d", "i", "t", ":", " ", "G", "e", "t", "t", "y", " ", "I", "m", "a", "g", "e", "s">>

\* the texts of the elements of the pages below
PageTexts ==
    {<<>>, txt_plain, txt_getty_credit, txt_afp_epa, txt_short, txt_epa_images,
     txt_image_credit, txt_getty_credit \o txt_afp_epa}

\* the matcher's answer for every dictionary entry on the texts of the pages
MatchesOnPage ==
    [t \in PageTexts |->
        [i \in DOMAIN CREDIT_KEYWORDS |->
            matches_keyword_with_word_boundary(CREDIT_KEYWORDS[i], t)]]

\* matches_keyword_with_word_boundary(CREDIT_KEYWORDS[i], text)
EntryMatches(i, text) ==
    IF text \in PageTexts THEN MatchesOnPage[text][i]
    ELSE matches_keyword_with_word_boundary(CREDIT_KEYWORDS[i], text)

FirstKeyword(text) ==
    LET hits == {i \in DOMAIN CREDIT_KEYWORDS : EntryMatches(i, text)}
    IN  IF hits = {} THEN None
        ELSE CREDIT_KEYWORDS[CHOOSE i \in hits : \A j \in hits : i <= j]

\* new RegExp('\\b' + escaped keyword + '\\b', 'i').test(text)
JsWordRegexTest(keyword, text) ==
    \E s \in 1..Len(text) :
        /\ WordBoundary(text, s - 1)
        /\ LiteralAt(keyword, text, s)
        /\ WordBoundary(text, s + Len(keyword) - 1)

\* the script's answer for every dictionary entry on the texts of the pages
JsMatchesOnPage ==
    [t \in PageTexts |->
        [i \in DOMAIN CREDIT_KEYWORDS |-> JsWordRegexTest(CREDIT_KEYWORDS[i], t)]]

\* regex.test(text) for the keyword CREDIT_KEYWORDS[i]
JsEntryMatches(i, text) ==
    IF text \in PageTexts THEN JsMatchesOnPage[text][i]
    ELSE JsWordRegexTest(CREDIT_KEYWORDS[i], text)

\* 1, 2, ... up to the length of the dictionary
KeywordIndexes == [i \in DOMAIN CREDIT_KEYWORDS |-> i]

RECURSIVE FlatMapFrom(_, _, _)
\* the concatenation of Op(x) over the elements x of seq from position i on
FlatMapFrom(Op(_), seq, i) ==
    IF i > Len(seq) THEN <<>>
    ELSE Op(seq[i]) \o FlatMapFrom(Op, seq, i + 1)

\* the concatenation of Op(x) over the elements x of seq
FlatMap(Op(_), seq) == FlatMapFrom(Op, seq, 1)

\* one "Scrolled Text" entry per collected text element that holds a keyword
ScrolledEntry(text) ==
    LET keyword == FirstKeyword(text)
    IN  IF keyword = None THEN <<>> ELSE <<pre_scrolled \o keyword>>

\* every dictionary entry the element's text matches, one after the other
\* (the loop over keywords in the script has no break)
ElementEntries(text) ==
    LET Entry(i) == IF JsEntryMatches(i, text)
                    THEN <<pre_parent \o CREDIT_KEYWORDS[i]>> ELSE <<>>
    IN  FlatMap(Entry, KeywordIndexes)

(***************************************************************************)
(* check_credit_keywords_in_parents.  Lengths are in tenths of the         *)
(* viewport height: scroll_step is 0.5 of it, the positions are 0.3 apart. *)
(***************************************************************************)
scroll_step == 5
scroll_increment == 3
viewport_height == 2 * scroll_step

RECURSIVE PositionsFrom(_, _)
\* while current_pos <= scroll_down_position: append; current_pos += 0.3 * viewport_height
PositionsFrom(current_pos, scroll_down_position) ==
    IF current_pos <= scroll_down_position
    THEN <<current_pos>> \o PositionsFrom(current_pos + scroll_increment, scroll_down_position)
    ELSE <<>>

scroll_positions(image_absolute_y) ==
    PositionsFrom(Max(0, image_absolute_y - scroll_step), image_absolute_y + scroll_step)

\* where window.scrollTo(0, pos) leaves a document of height doc_height
ScrollTop(pos, doc_height) == Min(pos, Max(0, doc_height - viewport_height))

\* the text nodes the script returns at one scroll position: longer than two
\* characters, with a box that meets the viewport
visible_texts(nodes, pos, doc_height) ==
    LET top == ScrollTop(pos, doc_height)
        Visible(n) == /\ Len(n.text) > 2
                      /\ n.bottom - top >= 0
                      /\ n.top - top <= viewport_height
    IN  SelectSeq(nodes, Visible)

\* all_texts: what is collected over the scroll positions
collected_texts(nodes, image_absolute_y, doc_height) ==
    LET At(pos) == visible_texts(nodes, pos, doc_height)
    IN  FlatMap(At, scroll_positions(image_absolute_y))

\* page: nodes, image_y, doc_height, parent_text, grandparent_text,
\* scroll_fails, parents_fails (a driver call of that method raised; a raise
\* of the scrollIntoView before both methods is both flags)
\* the 'text' of each entry of all_texts; the list is a local of the parents
\* check and is gone when the next step starts
scrolled_texts(page) ==
    LET ct == collected_texts(page.nodes, page.image_y, page.doc_height)
    IN  IF page.scroll_fails THEN <<>> ELSE [i \in DOMAIN ct |-> ct[i].text]

\* Method 1: the text collected while scrolling
scrolled_text_keywords(page) ==
    LET NodeEntry(n) == ScrolledEntry(n.text)
    IN  IF page.scroll_fails THEN <<>>
        ELSE FlatMap(NodeEntry,
                     collected_texts(page.nodes, page.image_y, page.doc_height))

\* Method 2: parent and grandparent of the image
parent_element_keywords(page) ==
    IF page.parents_fails THEN <<>>
    ELSE ElementEntries(page.parent_text) \o ElementEntries(page.grandparent_text)

check_credit_keywords_in_parents(page) ==
    scrolled_text_keywords(page) \o parent_element_keywords(page)

(***************************************************************************)
(* check_caption_elements_for_credits.  A caption element has its text,    *)
(* the selectors of caption_selectors it answers to, and its place: in the *)
(* image's parent, in its grandparent only, or elsewhere on the page.      *)
(***************************************************************************)
caption_selectors ==
    <<"figcaption", "caption", ".caption", ".photo-caption", ".image-caption",
      ".credit", ".photo-credit", ".image-credit", "[class*=caption]", "[class*=credit]">>

\* container.querySelectorAll(selector), kept when text.length > 5
QueryAll(captions, selector, places) ==
    LET Hit(c) == selector \in c.selectors /\ c.place \in places /\ Len(c.text) > 5
    IN  SelectSeq(captions, Hit)

\* the captions of one container, selector by selector
ContainerCaptions(captions, places) ==
    LET BySelector(sel) == QueryAll(captions, sel, places)
    IN  FlatMap(BySelector, caption_selectors)

\* the parent's captions, then the grandparent's (which holds the parent)
nearby_captions(captions) ==
    ContainerCaptions(captions, {"parent"})
        \o ContainerCaptions(captions, {"parent", "grandparent"})

all_captions(captions) == ContainerCaptions(captions, {"parent", "grandparent", "page"})

ImageCaptionEntry(c) ==
    LET keyword == FirstKeyword(c.text)
    IN  IF keyword = None THEN <<>> ELSE <<pre_image_caption \o keyword>>

\* one caption of the page-wide scan: the first keyword that matches and whose
\* "Page Caption: " entry is not yet in found_keywords is appended
PageCaptionStep(found_keywords, text) ==
    LET fresh == {i \in DOMAIN CREDIT_KEYWORDS :
                     /\ EntryMatches(i, text)
                     /\ ~InSeq(pre_page_caption \o CREDIT_KEYWORDS[i], found_keywords)}
    IN  IF fresh = {} THEN found_keywords
        ELSE Append(found_keywords,
                    pre_page_caption \o CREDIT_KEYWORDS[CHOOSE i \in fresh : \A j \in fresh : i <= j])

RECURSIVE PageCaptionScan(_, _)
PageCaptionScan(found_keywords, caps) ==
    IF caps = <<>> THEN found_keywords
    ELSE PageCaptionScan(PageCaptionStep(found_keywords, Head(caps).text), Tail(caps))

\* has_image: an image element was passed; near_fails, page_fails: the
\* script of that scan raised
near_caption_keywords(captions, has_image, near_fails) ==
    IF has_image /\ ~near_fails
    THEN FlatMap(ImageCaptionEntry, nearby_captions(captions))
    ELSE <<>>

check_caption_elements_for_credits_abort(captions, has_image, near_fails, page_fails) ==
    IF page_fails THEN <<>>
    ELSE PageCaptionScan(near_caption_keywords(captions, has_image, near_fails),
                         all_captions(captions))

check_caption_elements_for_credits(captions, has_image, near_fails, page_fails) ==
    LET near == near_caption_keywords(captions, has_image, near_fails)
    IN  IF page_fails THEN near
        ELSE PageCaptionScan(near, all_captions(captions))

(***************************************************************************)
(* OCR of the image, and the impressum fallback.                           *)
(***************************************************************************)
\* find_credit_keywords_in_text: the dictionary keywords that match, each once
find_credit_keywords_in_text(text) ==
    LET First(i) == \A j \in 1..(i - 1) : CREDIT_KEYWORDS[j] # CREDIT_KEYWORDS[i]
        Pick(i) == IF First(i) /\ EntryMatches(i, text)
                   THEN <<CREDIT_KEYWORDS[i]>> ELSE <<>>
    IN  FlatMap(Pick, KeywordIndexes)

check_image_ocr_for_credits_unchecked(ocr) ==
    IF ocr.fails \/ ocr.text = <<>> THEN <<>>
    ELSE LET Entry(k) == <<pre_ocr \o k>>
         IN  FlatMap(Entry, find_credit_keywords_in_text(ocr.text))

\* ocr: available, fails, text
check_image_ocr_for_credits(ocr) ==
    IF ~ocr.available \/ ocr.fails \/ ocr.text = <<>> THEN <<>>
    ELSE LET Entry(k) == <<pre_ocr \o k>>
         IN  FlatMap(Entry, find_credit_keywords_in_text(ocr.text))

\* _ocr_scroll_impressum_page: a screenshot that was taken is tested with
\* os.path.exists, which raises NameError (the module does not import os) and
\* is caught; no screenshot reaches the OCR
ocr_scroll_impressum_page == <<>>

\* imp: link, not_found, page_text, ocr_available
ImpressumLoads(imp) == imp.link

\* page_text: the body text, read when the link was found and the page is no 404
ImpressumPageText(imp) == IF imp.link /\ ~imp.not_found THEN imp.page_text ELSE None

\* the loop left at its first match
impressum_text_keywords_first(page_text) ==
    IF FirstKeyword(page_text) = None THEN <<>> ELSE <<FirstKeyword(page_text)>>

\* "for keyword in CREDIT_KEYWORDS: if matches...: impressum_keywords.append"
impressum_text_keywords(page_text) ==
    LET Pick(i) == IF EntryMatches(i, page_text) THEN <<CREDIT_KEYWORDS[i]>> ELSE <<>>
    IN  FlatMap(Pick, KeywordIndexes)

check_impressum_for_credits(imp) ==
    IF ~imp.link \/ imp.not_found THEN <<>>
    ELSE LET in_html == impressum_text_keywords(imp.page_text)
         IN  IF in_html # <<>> THEN in_html
             ELSE IF imp.ocr_available THEN ocr_scroll_impressum_page ELSE <<>>

(***************************************************************************)
(* create_highlighted_credit_link                                          *)
(***************************************************************************)
page_url == <<"p", ".", "d", "e", "/", "a">>

\* str.replace(" ", "%20")
EncodeSpaces(t) ==
    LET Enc(c) == IF c = " " THEN <<"%", "2", "0">> ELSE <<c>>
    IN  FlatMap(Enc, t)

create_highlighted_credit_link(keywords, was_found, url) ==
    IF was_found /\ keywords # <<>> /\ url # <<>>
    THEN url \o <<"#", ":", "~", ":", "t", "e", "x", "t", "=">> \o EncodeSpaces(keywords[1])
    ELSE <<>>

(***************************************************************************)
(* Inputs of the text sources.                                             *)
(***************************************************************************)
CaptionShapes ==
    {[selectors |-> {"figcaption"}],
     [selectors |-> {".photo-credit", "[class*=credit]"}]}

CaptionElements ==
    {[text |-> t, selectors |-> sh.selectors, place |-> pl] :
        t \in {txt_plain, txt_getty_credit, txt_short}, sh \in CaptionShapes,
        pl \in {"parent", "grandparent", "page"}}

CaptionInputs == SeqsUpTo(CaptionElements, MaxCaptions)

NodeTops == {0, 12, 40}

\* the captions of the pages the pipeline is run on
DetectCaptionElements ==
    {[text |-> txt_getty_credit, selectors |-> {"figcaption"}, place |-> "parent"],
     [text |-> txt_getty_credit, selectors |-> {".photo-credit", "[class*=credit]"},
      place |-> "page"],
     [text |-> txt_plain, selectors |-> {"figcaption"}, place |-> "grandparent"]}

DetectCaptionInputs == SeqsUpTo(DetectCaptionElements, MaxCaptions)

\* text nodes in document order, one line high
NodeLists ==
    {nodes \in SeqsUpTo([text : {txt_getty_credit, txt_afp_epa, txt_short},
                         top : NodeTops, bottom : {0}], MaxNodes) :
        \A i \in 1..(Len(nodes) - 1) : nodes[i].top < nodes[i + 1].top}

WithBottom(nodes) == [i \in DOMAIN nodes |-> [nodes[i] EXCEPT !.bottom = nodes[i].top + 1]]

ParentPages ==
    {[nodes |-> WithBottom(nodes), image_y |-> y, doc_height |-> h,
      parent_text |-> pt, grandparent_text |-> pt \o gt,
      scroll_fails |-> sf, parents_fails |-> pf] :
        nodes \in NodeLists, y \in {2, 14}, h \in {20, 50},
        pt \in {<<>>, txt_getty_credit}, gt \in {<<>>, txt_afp_epa},
        sf \in BOOLEAN, pf \in BOOLEAN}

OcrInputs ==
    {[available |-> a, fails |-> f, text |-> t] :
        a \in BOOLEAN, f \in BOOLEAN, t \in {<<>>, txt_plain, txt_getty_credit}}

ImpressumInputs ==
    {[link |-> l, not_found |-> nf, page_text |-> t, ocr_available |-> a] :
        l \in BOOLEAN, nf \in BOOLEAN, t \in {txt_plain, txt_afp_epa, txt_epa_images, txt_image_credit},
        a \in BOOLEAN}

(***************************************************************************)
(* The caption check, applied to a page's caption elements.                *)
(***************************************************************************)
CaptionInit ==
    /\ c_captions \in CaptionInputs
    /\ c_image \in BOOLEAN
    /\ c_found = <<>>
    /\ c_page_scanned = FALSE
    /\ cpc = "call"

CaptionIdle ==
    /\ c_captions = <<>> /\ c_image = FALSE /\ c_found = <<>>
    /\ c_page_scanned = FALSE /\ cpc = "idle"

ApplyCaptions ==
    /\ cpc = "call"
    /\ \E near_fails \in BOOLEAN, page_fails \in BOOLEAN :
          /\ c_found' = check_caption_elements_for_credits(c_captions, c_image,
                                                           near_fails, page_fails)
          /\ c_page_scanned' = ~page_fails
    /\ cpc' = "done"
    /\ UNCHANGED <<c_captions, c_image>>
    /\ UNCHANGED not_caption_vars

CaptionNext == ApplyCaptions

(***************************************************************************)
(* check_image_credits, step by step.                                      *)
(***************************************************************************)
err_page == <<"P", "a", "g", "e", " ", "e", "r", "r", "o", "r">>
err_not_found == <<"T", "a", "r", "g", "e", "t", " ", "i", "m", "a", "g", "e", " ", "n", "o", "t", " ", "f", "o", "u", "n", "d", " ", "o", "n", " ", "p", "a", "g", "e">>
err_failed == <<"C", "r", "e", "d", "i", "t", " ", "c", "h", "e", "c", "k", " ", "f", "a", "i", "l", "e", "d">>

DetectInit ==
    /\ dpc = "start"
    /\ image_element = None
    /\ located_by = "pending"
    /\ all_keywords = <<>>
    /\ primary_keywords = <<>>
    /\ impressum_called = FALSE
    /\ impressum_visited = FALSE
    /\ impressum_page_text = None
    /\ d_results = [image_found |-> FALSE, credit_keywords |-> <<>>,
                    highlight_url |-> <<>>, error |-> None]
    /\ ocr_available \in BOOLEAN
    /\ consulted = <<>>
    /\ all_texts = <<>>
    /\ locate_calls = <<>>

DetectIdle ==
    /\ dpc = "idle" /\ image_element = None /\ located_by = "pending"
    /\ all_keywords = <<>> /\ primary_keywords = <<>>
    /\ impressum_called = FALSE /\ impressum_visited = FALSE
    /\ impressum_page_text = None
    /\ d_results = [image_found |-> FALSE, credit_keywords |-> <<>>,
                    highlight_url |-> <<>>, error |-> None]
    /\ ocr_available = FALSE /\ consulted = <<>> /\ all_texts = <<>>
    /\ locate_calls = <<>>

\* "if not all_keywords:" before the impressum check
FallbackGate_always(keywords) == TRUE

FallbackGate(keywords) == keywords = <<>>

\* the guard stopping at the first source that gave a keyword
SourceGuard_until_match(element, keywords) == element # None /\ keywords = <<>>

\* "if image_element:" before the parents check and before the OCR; the
\* keywords found so far are not looked at
SourceGuard(element, keywords) == element # None

\* one entry of the record of sources read
Consult(source, keywords, failed) ==
    [source |-> source, keywords |-> keywords, failed |-> failed]

\* the src attributes of the located element
ImageSrcs == {<<>>, <<"p", "h", "o", "t", "o", ".", "j", "p", "g">>}

\* setup_driver, driver.get and check_for_404_or_page_errors
DetectNavigate ==
    /\ dpc = "start"
    /\ \E error_msg \in BOOLEAN :
          IF error_msg
          THEN /\ d_results' = [d_results EXCEPT !.error = err_page]
               /\ dpc' = "done"
          ELSE /\ dpc' = "locate"
               /\ UNCHANGED d_results
    /\ UNCHANGED <<image_element, located_by, all_keywords, primary_keywords,
                   impressum_called, impressum_visited, impressum_page_text, ocr_available, consulted, all_texts, locate_calls>>
    /\ UNCHANGED not_detect_vars

\* an exception of the driver outside the guarded checks (setup, navigation,
\* the similarity search, the scrollIntoView before the screenshot): the
\* outer handler
DetectRaise ==
    /\ dpc \in {"start", "locate", "parents"}
    /\ d_results' = [d_results EXCEPT !.error = err_failed]
    /\ dpc' = "done"
    /\ UNCHANGED <<image_element, located_by, all_keywords, primary_keywords,
                   impressum_called, impressum_visited, impressum_page_text, ocr_available, consulted, all_texts, locate_calls>>
    /\ UNCHANGED not_detect_vars

\* the second try made whatever the first returned
SimilaritySearchGate_always(element) == TRUE

\* "if image_element: ... else:" after find_image_by_url: the similarity
\* search is the else branch
SimilaritySearchGate(element) == element = None

\* one entry of the record of tries to locate the image
LocateCall(by, element) == [by |-> by, hit |-> element # None]

\* find_image_by_url, then scroll_and_search_image
DetectLocate ==
    /\ dpc = "locate"
    /\ \E url_hit \in BOOLEAN, similar_hit \in BOOLEAN, src \in ImageSrcs :
          LET by_url == IF url_hit THEN <<[src |-> src]>> ELSE None
              searched == SimilaritySearchGate(by_url)
              by_similarity == IF similar_hit THEN <<[src |-> src]>> ELSE None
              element == IF searched THEN by_similarity ELSE by_url
          IN  /\ locate_calls' = <<LocateCall("url", by_url)>> \o
                    (IF searched THEN <<LocateCall("similarity", by_similarity)>> ELSE <<>>)
              /\ located_by' = IF element = None THEN "none"
                               ELSE IF searched THEN "similarity" ELSE "url"
              /\ IF element = None
                 THEN /\ d_results' = [d_results EXCEPT !.error = err_not_found]
                      /\ dpc' = "done"
                      /\ UNCHANGED image_element
                 ELSE /\ d_results' = [d_results EXCEPT !.image_found = TRUE]
                      /\ image_element' = element
                      /\ dpc' = "parents"
    /\ UNCHANGED <<all_keywords, primary_keywords, impressum_called, impressum_visited, impressum_page_text,
                   ocr_available, consulted, all_texts>>
    /\ UNCHANGED not_detect_vars

\* 1. parent elements and scrolled text
DetectParents ==
    /\ dpc = "parents"
    /\ IF SourceGuard(image_element, all_keywords)
       THEN \E page \in ParentPages :
               /\ all_keywords' = all_keywords \o check_credit_keywords_in_parents(page)
               /\ primary_keywords' = all_keywords'
               /\ consulted' = consulted \o
                     <<Consult("scrolled", scrolled_text_keywords(page), page.scroll_fails),
                       Consult("parents", parent_element_keywords(page), page.parents_fails)>>
               /\ all_texts' = scrolled_texts(page)
       ELSE UNCHANGED <<all_keywords, primary_keywords, consulted, all_texts>>
    /\ dpc' = "captions"
    /\ UNCHANGED <<image_element, located_by, impressum_called, impressum_visited, impressum_page_text,
                   d_results, ocr_available, locate_calls>>
    /\ UNCHANGED not_detect_vars

\* 2. caption elements
DetectCaptions ==
    /\ dpc = "captions"
    /\ \E captions \in DetectCaptionInputs, near_fails \in BOOLEAN, page_fails \in BOOLEAN :
          LET has_image == image_element # None
              near == near_caption_keywords(captions, has_image, near_fails)
              caption_keywords ==
                  check_caption_elements_for_credits(captions, has_image,
                                                     near_fails, page_fails)
          IN  /\ all_keywords' = all_keywords \o caption_keywords
              /\ primary_keywords' = all_keywords'
              /\ consulted' = consulted \o
                    (IF has_image THEN <<Consult("near captions", near, near_fails)>>
                     ELSE <<>>) \o
                    <<Consult("page captions",
                              SubSeq(caption_keywords, Len(near) + 1, Len(caption_keywords)),
                              page_fails)>>
    /\ all_texts' = <<>>
    /\ dpc' = "ocr"
    /\ UNCHANGED <<image_element, located_by, impressum_called, impressum_visited, impressum_page_text,
                   d_results, ocr_available, locate_calls>>
    /\ UNCHANGED not_detect_vars

\* 4. OCR of the image: image_element.get_attribute("src"), then
\* check_image_ocr_for_credits when there is a src
DetectOcr ==
    /\ dpc = "ocr"
    /\ IF SourceGuard(image_element, all_keywords)
       THEN \E ocr \in {o \in OcrInputs : o.available = ocr_available} :
               LET ocr_keywords == IF image_element[1].src # <<>>
                                   THEN check_image_ocr_for_credits(ocr)
                                   ELSE <<>>
               IN  /\ all_keywords' = all_keywords \o ocr_keywords
                   /\ primary_keywords' = all_keywords'
                   /\ consulted' = Append(consulted, Consult("ocr", ocr_keywords, ocr.fails))
       ELSE UNCHANGED <<all_keywords, primary_keywords, consulted>>
    /\ dpc' = "fallback"
    /\ UNCHANGED <<image_element, located_by, impressum_called, impressum_visited, impressum_page_text,
                   d_results, ocr_available, all_texts, locate_calls>>
    /\ UNCHANGED not_detect_vars

\* 5. the impressum page as fallback
DetectFallback ==
    /\ dpc = "fallback"
    /\ IF FallbackGate(all_keywords)
       THEN \E imp \in {i \in ImpressumInputs : i.ocr_available = ocr_available} :
               /\ impressum_called' = TRUE
               /\ impressum_visited' = ImpressumLoads(imp)
               /\ impressum_page_text' = ImpressumPageText(imp)
               /\ all_keywords' = all_keywords \o check_impressum_for_credits(imp)
       ELSE UNCHANGED <<impressum_called, impressum_visited, impressum_page_text, all_keywords>>
    /\ dpc' = "store"
    /\ UNCHANGED <<image_element, located_by, primary_keywords, d_results,
                   ocr_available, consulted, all_texts, locate_calls>>
    /\ UNCHANGED not_detect_vars

\* results['credit_keywords'], results['highlight_url'], return results
DetectStore ==
    /\ dpc = "store"
    /\ d_results' = [d_results EXCEPT
                        !.credit_keywords = all_keywords,
                        !.highlight_url =
                            IF all_keywords # <<>>
                            THEN create_highlighted_credit_link(all_keywords, TRUE, page_url)
                            ELSE <<>>]
    /\ dpc' = "done"
    /\ UNCHANGED <<image_element, located_by, all_keywords, primary_keywords,
                   impressum_called, impressum_visited, impressum_page_text, ocr_available, consulted, all_texts, locate_calls>>
    /\ UNCHANGED not_detect_vars

DetectNext ==
    \/ DetectNavigate
    \/ DetectRaise
    \/ DetectLocate
    \/ DetectParents
    \/ DetectCaptions
    \/ DetectOcr
    \/ DetectFallback
    \/ DetectStore

(***************************************************************************)
(* The daily CSV: save_case_to_daily_csv, called by several processes.     *)
(***************************************************************************)
SaveProcs == 1..MaxProcs

\* the header line of a CSV file, and the row of the n-th call of process p
HeaderLine == <<0, 0>>
row_data(p, n) == <<p, n>>

\* list(csv.DictReader(f)): the first line names the fields, the others are rows
DictReaderRows(lines) == IF lines = <<>> THEN <<>> ELSE Tail(lines)

\* writeheader() and writerows(rows)
WrittenLines(rows) == <<HeaderLine>> \o rows

DailyInit ==
    /\ daily_exists \in BOOLEAN
    /\ daily_lines = IF daily_exists THEN WrittenLines(<<>>) ELSE <<>>
    /\ daily_tmp = None
    /\ daily_lock = 0
    /\ save_pc = [p \in SaveProcs |-> "idle"]
    /\ save_existing = [p \in SaveProcs |-> <<>>]
    /\ save_calls = [p \in SaveProcs |-> 0]

DailyIdle ==
    /\ daily_exists = FALSE /\ daily_lines = <<>> /\ daily_tmp = None
    /\ daily_lock = 0 /\ save_pc = <<>> /\ save_existing = <<>> /\ save_calls = <<>>

\* the call and its test 'if not os.path.exists(daily_csv)'
SaveCheckExists(p) ==
    /\ save_pc[p] = "idle"
    /\ save_calls[p] < MaxCalls
    /\ save_pc' = [save_pc EXCEPT ![p] = IF daily_exists THEN "lock" ELSE "create"]
    /\ UNCHANGED <<daily_exists, daily_lines, daily_tmp, daily_lock, save_existing, save_calls>>
    /\ UNCHANGED not_daily_vars

\* open(daily_csv, 'w') and writeheader(): the file is created or truncated
SaveCreate(p) ==
    /\ save_pc[p] = "create"
    /\ daily_exists' = TRUE
    /\ daily_lines' = WrittenLines(<<>>)
    /\ save_pc' = [save_pc EXCEPT ![p] = "lock"]
    /\ UNCHANGED <<daily_tmp, daily_lock, save_existing, save_calls>>
    /\ UNCHANGED not_daily_vars

\* fcntl.flock(lock_f, LOCK_EX) returns when no other process holds the lock
SaveLock(p) ==
    /\ save_pc[p] = "lock"
    /\ daily_lock = 0
    /\ daily_lock' = p
    /\ save_pc' = [save_pc EXCEPT ![p] = "read"]
    /\ UNCHANGED <<daily_exists, daily_lines, daily_tmp, save_existing, save_calls>>
    /\ UNCHANGED not_daily_vars

\* existing_data is read from the file when the file exists
SaveRead(p) ==
    /\ save_pc[p] = "read"
    /\ save_existing' = [save_existing EXCEPT
                            ![p] = IF daily_exists THEN DictReaderRows(daily_lines) ELSE <<>>]
    /\ save_pc' = [save_pc EXCEPT ![p] = "write_temp"]
    /\ UNCHANGED <<daily_exists, daily_lines, daily_tmp, daily_lock, save_calls>>
    /\ UNCHANGED not_daily_vars

\* existing_data.append(row_data) and the write of the temporary file
SaveWriteTemp(p) ==
    /\ save_pc[p] = "write_temp"
    /\ daily_tmp' = WrittenLines(Append(save_existing[p], row_data(p, save_calls[p] + 1)))
    /\ save_pc' = [save_pc EXCEPT ![p] = "move"]
    /\ UNCHANGED <<daily_exists, daily_lines, daily_lock, save_existing, save_calls>>
    /\ UNCHANGED not_daily_vars

\* shutil.move(temp_file, daily_csv)
SaveMove(p) ==
    /\ save_pc[p] = "move"
    /\ daily_exists' = TRUE
    /\ daily_lines' = daily_tmp
    /\ daily_tmp' = None
    /\ save_pc' = [save_pc EXCEPT ![p] = "unlock"]
    /\ UNCHANGED <<daily_lock, save_existing, save_calls>>
    /\ UNCHANGED not_daily_vars

\* the lock file is closed, which releases the lock, and the call returns
SaveUnlock(p) ==
    /\ save_pc[p] = "unlock"
    /\ daily_lock' = 0
    /\ save_existing' = [save_existing EXCEPT ![p] = <<>>]
    /\ save_calls' = [save_calls EXCEPT ![p] = @ + 1]
    /\ save_pc' = [save_pc EXCEPT ![p] = "idle"]
    /\ UNCHANGED <<daily_exists, daily_lines, daily_tmp>>
    /\ UNCHANGED not_daily_vars

DailyNext ==
    \E p \in SaveProcs :
        \/ SaveCheckExists(p)
        \/ SaveCreate(p)
        \/ SaveLock(p)
        \/ SaveRead(p)
        \/ SaveWriteTemp(p)
        \/ SaveMove(p)
        \/ SaveUnlock(p)

(***************************************************************************)
(* The overall CSV: safe_update_overall_csv, called by the scheduler of    *)
(* the even and of the odd claims.                                         *)
(***************************************************************************)
OverallProcs == {"even", "odd"}

\* the file a name can lead to: a path that is removed and created again
\* leads to another file, while a file that is open lives on without a name
Inodes == 1..(Cardinality(OverallProcs) + 1)

max_wait == 30

\* the case ids of output/cases_checked_<claim_type>.csv
checked_csv(claim_type) == IF claim_type = "even" THEN <<2>> ELSE <<1>>

\* the file that open(lock_file, 'w') opens: the one of the path, or a new one
OpenedInode ==
    IF lock_path # 0 THEN lock_path
    ELSE CHOOSE i \in Inodes :
            /\ \A q \in OverallProcs : upd_fd[q] # i
            /\ \A j \in Inodes : (\A q \in OverallProcs : upd_fd[q] # j) => i <= j

RECURSIVE MergeFrom(_, _, _)
MergeFrom(merged_data, new_data, existing_case_ids) ==
    IF new_data = <<>> THEN merged_data
    ELSE MergeFrom(IF Head(new_data) \in existing_case_ids THEN merged_data
                   ELSE Append(merged_data, Head(new_data)),
                   Tail(new_data), existing_case_ids)

\* merged_data: existing_data and the rows of new_data whose case id is new
merged_data(existing_data, new_data) ==
    MergeFrom(existing_data, new_data, {existing_data[i] : i \in DOMAIN existing_data})

OverallInit ==
    /\ lock_path = 0
    /\ flock_owner = [i \in Inodes |-> "none"]
    /\ overall_csv \in {<<>>, <<1>>}
    /\ upd_pc = [p \in OverallProcs |-> "idle"]
    /\ upd_fd = [p \in OverallProcs |-> 0]
    /\ upd_merged = [p \in OverallProcs |-> <<>>]
    /\ wait_time = [p \in OverallProcs |-> 0]
    /\ upd_depth = [p \in OverallProcs |-> 0]

OverallIdle ==
    /\ lock_path = 0 /\ flock_owner = <<>> /\ overall_csv = <<>>
    /\ upd_pc = <<>> /\ upd_fd = <<>> /\ upd_merged = <<>>
    /\ wait_time = <<>> /\ upd_depth = <<>>

\* the call: without the checked CSV it returns before the try statement
UpdateCall(p) ==
    /\ upd_pc[p] = "idle"
    /\ \E checked_exists \in BOOLEAN :
          upd_pc' = [upd_pc EXCEPT ![p] = IF checked_exists THEN "open" ELSE "idle"]
    /\ UNCHANGED <<lock_path, flock_owner, overall_csv, upd_fd, upd_merged, wait_time, upd_depth>>
    /\ UNCHANGED not_overall_vars

\* open(lock_file, 'w'), in the try block and in the wait loop
UpdateOpen(p) ==
    /\ upd_pc[p] \in {"open", "retry_open"}
    /\ lock_path' = OpenedInode
    /\ upd_fd' = [upd_fd EXCEPT ![p] = OpenedInode]
    /\ upd_pc' = [upd_pc EXCEPT ![p] = IF upd_pc[p] = "open" THEN "flock" ELSE "retry_flock"]
    /\ UNCHANGED <<flock_owner, overall_csv, upd_merged, wait_time, upd_depth>>
    /\ UNCHANGED not_overall_vars

\* fcntl.flock(LOCK_EX | LOCK_NB): the lock, or BlockingIOError and the wait loop
UpdateFlock(p) ==
    /\ upd_pc[p] = "flock"
    /\ IF flock_owner[upd_fd[p]] = "none"
       THEN /\ flock_owner' = [flock_owner EXCEPT ![upd_fd[p]] = p]
            /\ upd_pc' = [upd_pc EXCEPT ![p] = "read"]
            /\ UNCHANGED <<upd_fd, wait_time>>
       ELSE /\ upd_fd' = [upd_fd EXCEPT ![p] = 0]
            /\ wait_time' = [wait_time EXCEPT ![p] = 0]
            /\ upd_pc' = [upd_pc EXCEPT ![p] = "sleep"]
            /\ UNCHANGED flock_owner
    /\ UNCHANGED <<lock_path, overall_csv, upd_merged, upd_depth>>
    /\ UNCHANGED not_overall_vars

\* existing_data and new_data are read and merged
UpdateRead(p) ==
    /\ upd_pc[p] = "read"
    /\ upd_merged' = [upd_merged EXCEPT ![p] = merged_data(overall_csv, checked_csv(p))]
    /\ upd_pc' = [upd_pc EXCEPT ![p] = "write"]
    /\ UNCHANGED <<lock_path, flock_owner, overall_csv, upd_fd, wait_time, upd_depth>>
    /\ UNCHANGED not_overall_vars

\* merged_data is written back when it is not empty; the with block ends,
\* which closes the lock file and so releases the lock
UpdateWrite(p) ==
    /\ upd_pc[p] = "write"
    /\ overall_csv' = IF upd_merged[p] # <<>> THEN upd_merged[p] ELSE overall_csv
    /\ flock_owner' = [flock_owner EXCEPT ![upd_fd[p]] = "none"]
    /\ upd_fd' = [upd_fd EXCEPT ![p] = 0]
    /\ upd_merged' = [upd_merged EXCEPT ![p] = <<>>]
    /\ upd_pc' = [upd_pc EXCEPT ![p] = "finally"]
    /\ UNCHANGED <<lock_path, wait_time, upd_depth>>
    /\ UNCHANGED not_overall_vars

\* while wait_time < max_wait: time.sleep(1); wait_time += 1
UpdateSleep(p) ==
    /\ upd_pc[p] = "sleep"
    /\ IF wait_time[p] < max_wait
       THEN /\ wait_time' = [wait_time EXCEPT ![p] = @ + 1]
            /\ upd_pc' = [upd_pc EXCEPT ![p] = "retry_open"]
       ELSE /\ upd_pc' = [upd_pc EXCEPT ![p] = "after_wait"]
            /\ UNCHANGED wait_time
    /\ UNCHANGED <<lock_path, flock_owner, overall_csv, upd_fd, upd_merged, upd_depth>>
    /\ UNCHANGED not_overall_vars

\* the flock of the wait loop: with the lock the loop is left by break,
\* without it the loop continues; both close the lock file
UpdateRetryFlock(p) ==
    /\ upd_pc[p] = "retry_flock"
    /\ IF flock_owner[upd_fd[p]] = "none"
       THEN /\ flock_owner' = [flock_owner EXCEPT ![upd_fd[p]] = p]
            /\ upd_pc' = [upd_pc EXCEPT ![p] = "break"]
            /\ UNCHANGED upd_fd
       ELSE /\ upd_fd' = [upd_fd EXCEPT ![p] = 0]
            /\ upd_pc' = [upd_pc EXCEPT ![p] = "sleep"]
            /\ UNCHANGED flock_owner
    /\ UNCHANGED <<lock_path, overall_csv, upd_merged, wait_time, upd_depth>>
    /\ UNCHANGED not_overall_vars

\* break: the with block of the wait loop ends and releases the lock
UpdateBreak(p) ==
    /\ upd_pc[p] = "break"
    /\ flock_owner' = [flock_owner EXCEPT ![upd_fd[p]] = "none"]
    /\ upd_fd' = [upd_fd EXCEPT ![p] = 0]
    /\ upd_pc' = [upd_pc EXCEPT ![p] = "after_wait"]
    /\ UNCHANGED <<lock_path, overall_csv, upd_merged, wait_time, upd_depth>>
    /\ UNCHANGED not_overall_vars

\* after the loop: give up when wait_time >= max_wait, else call
\* safe_update_overall_csv again, inside this call
UpdateAfterWait(p) ==
    /\ upd_pc[p] = "after_wait"
    /\ IF wait_time[p] >= max_wait
       THEN /\ upd_pc' = [upd_pc EXCEPT ![p] = "finally"]
            /\ UNCHANGED upd_depth
       ELSE /\ upd_depth[p] < MaxRetries
            /\ \E checked_exists \in BOOLEAN :
                  IF checked_exists
                  THEN /\ upd_depth' = [upd_depth EXCEPT ![p] = @ + 1]
                       /\ upd_pc' = [upd_pc EXCEPT ![p] = "open"]
                  ELSE /\ upd_pc' = [upd_pc EXCEPT ![p] = "finally"]
                       /\ UNCHANGED upd_depth
    /\ UNCHANGED <<lock_path, flock_owner, overall_csv, upd_fd, upd_merged, wait_time>>
    /\ UNCHANGED not_overall_vars

\* finally: the lock file is removed when it exists; the call returns, to
\* the finally of the call that made it when there is one
UpdateFinally(p) ==
    /\ upd_pc[p] = "finally"
    /\ lock_path' = 0
    /\ IF upd_depth[p] > 0
       THEN /\ upd_depth' = [upd_depth EXCEPT ![p] = @ - 1]
            /\ UNCHANGED upd_pc
       ELSE /\ upd_pc' = [upd_pc EXCEPT ![p] = "idle"]
            /\ UNCHANGED upd_depth
    /\ UNCHANGED <<flock_owner, overall_csv, upd_fd, upd_merged, wait_time>>
    /\ UNCHANGED not_overall_vars

OverallNext ==
    \E p \in OverallProcs :
        \/ UpdateCall(p)
        \/ UpdateOpen(p)
        \/ UpdateFlock(p)
        \/ UpdateRead(p)
        \/ UpdateWrite(p)
        \/ UpdateSleep(p)
        \/ UpdateRetryFlock(p)
        \/ UpdateBreak(p)
        \/ UpdateAfterWait(p)
        \/ UpdateFinally(p)

(***************************************************************************)
(* The hits: process_hits, run again after a run that ended or was         *)
(* interrupted.                                                            *)
(***************************************************************************)
HitKeys == 1..MaxRows

\* the rows of the input CSV: the hit (case_id, hit_number), and whether the
\* row has an image URL and a page URL
InputRows == [hit_key : HitKeys, has_urls : BOOLEAN]

status_success == "Success"
status_error == "Error: failed"
status_unexpected == "Unexpected Error: failed"
status_missing == "Missing URL data"

\* what a call of check_image_credits_func ends with
CheckOutcomes == {status_success, status_error, status_unexpected}

\* a row of the output CSV; run tells the rows of two checks of one hit apart
OutputRow(hit_key, error_status, run) ==
    [hit_key |-> hit_key, error_status |-> error_status, run |-> run]

\* existing_results after the rows read so far: a row with an error_status
\* takes the place of an earlier row of the same hit
RECURSIVE LoadResults(_, _)
LoadResults(rows, loaded) ==
    IF rows = <<>> THEN loaded
    ELSE LET row == Head(rows)
         IN  LoadResults(Tail(rows),
                 IF row.error_status # ""
                 THEN [k \in DOMAIN loaded \cup {row.hit_key} |->
                          IF k = row.hit_key THEN row ELSE loaded[k]]
                 ELSE loaded)

HitsInit ==
    /\ input_csv \in {rows \in SeqsUpTo(InputRows, MaxRows) :
                        \A i, j \in DOMAIN rows : rows[i].hit_key = rows[j].hit_key => i = j}
    /\ output_exists = FALSE
    /\ output_csv = <<>>
    /\ hpc = "idle"
    /\ h_idx = 0
    /\ existing_results = <<>>
    /\ h_run = 0
    /\ checked_hits = {}
    /\ output_before = <<>>
    /\ run_completed = FALSE

HitsIdle ==
    /\ input_csv = <<>> /\ output_exists = FALSE /\ output_csv = <<>>
    /\ hpc = "off" /\ h_idx = 0 /\ existing_results = <<>> /\ h_run = 0
    /\ checked_hits = {} /\ output_before = <<>> /\ run_completed = FALSE

\* processed_hits: the hits that have a row in existing_results
processed_hits == DOMAIN existing_results

\* the call up to the loop: the input rows are read, the processed hits are
\* loaded from the output CSV when it exists, and open(output_csv, "w")
\* empties it for the header
HitsStart ==
    /\ hpc = "idle"
    /\ h_run < MaxRuns
    /\ h_run' = h_run + 1
    /\ existing_results' = IF output_exists THEN LoadResults(output_csv, <<>>) ELSE <<>>
    /\ output_before' = output_csv
    /\ output_exists' = TRUE
    /\ output_csv' = <<>>
    /\ checked_hits' = {}
    /\ run_completed' = FALSE
    /\ h_idx' = 1
    /\ hpc' = "loop"
    /\ UNCHANGED input_csv
    /\ UNCHANGED not_hits_vars

\* a row whose hit is in processed_hits: the existing row is written
HitsWriteExisting ==
    /\ hpc = "loop"
    /\ h_idx <= Len(input_csv)
    /\ input_csv[h_idx].hit_key \in processed_hits
    /\ output_csv' = Append(output_csv, existing_results[input_csv[h_idx].hit_key])
    /\ h_idx' = h_idx + 1
    /\ UNCHANGED <<input_csv, output_exists, hpc, existing_results, h_run, checked_hits,
                   output_before, run_completed>>
    /\ UNCHANGED not_hits_vars

\* a row without image URL or page URL is written as "Missing URL data"
HitsMissingData ==
    /\ hpc = "loop"
    /\ h_idx <= Len(input_csv)
    /\ input_csv[h_idx].hit_key \notin processed_hits
    /\ ~input_csv[h_idx].has_urls
    /\ output_csv' = Append(output_csv, OutputRow(input_csv[h_idx].hit_key, status_missing, h_run))
    /\ h_idx' = h_idx + 1
    /\ UNCHANGED <<input_csv, output_exists, hpc, existing_results, h_run, checked_hits,
                   output_before, run_completed>>
    /\ UNCHANGED not_hits_vars

\* any other row is checked by check_image_credits_func and its result written
HitsCheck ==
    /\ hpc = "loop"
    /\ h_idx <= Len(input_csv)
    /\ input_csv[h_idx].hit_key \notin processed_hits
    /\ input_csv[h_idx].has_urls
    /\ checked_hits' = checked_hits \cup {input_csv[h_idx].hit_key}
    /\ \E error_status \in CheckOutcomes :
          output_csv' = Append(output_csv, OutputRow(input_csv[h_idx].hit_key, error_status, h_run))
    /\ h_idx' = h_idx + 1
    /\ UNCHANGED <<input_csv, output_exists, hpc, existing_results, h_run, output_before,
                   run_completed>>
    /\ UNCHANGED not_hits_vars

\* after the last row the output CSV is closed and the call returns
HitsFinish ==
    /\ hpc = "loop"
    /\ h_idx > Len(input_csv)
    /\ hpc' = "idle"
    /\ run_completed' = TRUE
    /\ UNCHANGED <<input_csv, output_exists, output_csv, h_idx, existing_results, h_run,
                   checked_hits, output_before>>
    /\ UNCHANGED not_hits_vars

\* the run is interrupted inside the loop: the output CSV keeps the rows
\* written and flushed so far
HitsInterrupt ==
    /\ hpc = "loop"
    /\ hpc' = "idle"
    /\ UNCHANGED <<input_csv, output_exists, output_csv, h_idx, existing_results, h_run,
                   checked_hits, output_before, run_completed>>
    /\ UNCHANGED not_hits_vars

HitsNext ==
    \/ HitsStart
    \/ HitsWriteExisting
    \/ HitsMissingData
    \/ HitsCheck
    \/ HitsFinish
    \/ HitsInterrupt

\* no process works on the files
FilesIdle == DailyIdle /\ OverallIdle /\ HitsIdle

\* no part but the files runs
PagesIdle == SearchIdle /\ MatchIdle /\ CaptionIdle /\ DetectIdle

(***************************************************************************)
(* The specifications: each runs one part and leaves the others idle.      *)
(***************************************************************************)
InitSearch == SearchInit /\ MatchIdle /\ CaptionIdle /\ DetectIdle /\ FilesIdle

SpecSearch == InitSearch /\ [][SearchNext]_vars

\* The search under the scheduling the code can count on: a thread that runs
\* a task returns from it, a finished future is handed to the loop, and the
\* calling thread goes on with its next statement.  Nothing makes a pool thread
\* take a queued task, so the start of a task has no fairness.
SearchFairness ==
    /\ WF_vars(FindCollectUrls)
    /\ WF_vars(BatchStart)
    /\ WF_vars(\E i \in Futures : WorkerFinish(i))
    /\ WF_vars(\E i \in Futures : Collect(i))
    /\ WF_vars(CancelStep)
    /\ WF_vars(BatchReturn)
    /\ WF_vars(FindReturn)

\* the searches for a readable target among candidates that match it or not
InitSearchLive ==
    /\ InitSearch
    /\ target_url = "target.jpg"
    /\ similarity_threshold = 85
    /\ \A i \in DOMAIN compare_urls : compare_urls[i] \in {"same.jpg", "other.jpg"}
    /\ \A i \in DOMAIN images : images[i].src \in {"same.jpg", "other.jpg"}

SpecSearchLive == InitSearchLive /\ [][SearchNext]_vars /\ SearchFairness

InitMatch == MatchInit /\ SearchIdle /\ CaptionIdle /\ DetectIdle /\ FilesIdle

SpecMatch == InitMatch /\ [][MatchNext]_vars

InitCaptions == CaptionInit /\ SearchIdle /\ MatchIdle /\ DetectIdle /\ FilesIdle

SpecCaptions == InitCaptions /\ [][CaptionNext]_vars

InitDetect == DetectInit /\ SearchIdle /\ MatchIdle /\ CaptionIdle /\ FilesIdle

SpecDetect == InitDetect /\ [][DetectNext]_vars

InitDaily == DailyInit /\ PagesIdle /\ OverallIdle /\ HitsIdle

SpecDaily == InitDaily /\ [][DailyNext]_vars

InitOverall == OverallInit /\ PagesIdle /\ DailyIdle /\ HitsIdle

SpecOverall == InitOverall /\ [][OverallNext]_vars

InitHits == HitsInit /\ PagesIdle /\ DailyIdle /\ OverallIdle

SpecHits == InitHits /\ [][HitsNext]_vars

(***************************************************************************)
(* Properties of the similarity search.                                    *)
(***************************************************************************)
SearchEnded == spc \in {"returned", "done"}

HasMatch(rs) == \E i \in 1..Len(rs) : rs[i].is_match

CountIn(rs, r) == Cardinality({j \in 1..Len(rs) : rs[j] = r})

\* The candidate cannot be downloaded, decoded or hashed.
CandidateUnreadable(url) ==
    \/ ~Content(url).loads
    \/ Content(url).dh = <<>>
    \/ Content(url).ah = <<>>

TargetUnreadable == CandidateUnreadable(target_url)

\* C2: early exit.  A matching result is always the last one collected, so
\* nothing is added to the list after the first match and the list holds at
\* most one match; the list returned is, up to its order, the results
\* collected (one per future the loop was handed); after a match no future
\* is left waiting: each was cancelled before it ran or ran to its end, and
\* the result of one that ended unobserved is not in the list returned.
C2_EarlyExit ==
    /\ \A i \in 1..Len(results) : results[i].is_match => i = Len(results)
    /\ Len(results) = Cardinality(yielded)
    /\ \A i \in yielded : CountIn(results, fresult[i])
                              = Cardinality({j \in yielded : fresult[j] = fresult[i]})
    /\ (SearchEnded /\ fstate # <<>>) =>
          /\ Len(returned) = Len(results)
          /\ \A i \in 1..Len(results) :
                CountIn(returned, results[i]) = CountIn(results, results[i])
          /\ Cardinality({j \in 1..Len(returned) : returned[j].is_match}) <= 1
          /\ HasMatch(results) =>
                \A i \in Futures :
                    \/ fstate[i] = "cancelled" /\ i \notin DOMAIN fresult
                    \/ fstate[i] = "finished"

\* a match was returned, one future was cancelled, and another ran to its end
\* without its result being returned
C2_Witness ==
    /\ SearchEnded
    /\ HasMatch(returned)
    /\ \E i \in Futures : fstate[i] = "cancelled"
    /\ \E i \in Futures : fstate[i] = "finished" /\ i \notin yielded
                            /\ fresult[i].is_match

C8_FailureIsolation ==
    /\ \A i \in DOMAIN fresult :
          CandidateUnreadable(compare_urls[i]) =>
              fresult[i] = [url |-> compare_urls[i], score |-> 0, is_match |-> FALSE]
    /\ (SearchEnded /\ fstate # <<>> /\ ~HasMatch(returned)) =>
          /\ yielded = Futures
          /\ \A i \in Futures : fstate[i] = "finished"

\* an unreadable candidate was collected first and a later one is the match
C8_Witness ==
    /\ SearchEnded
    /\ Len(results) >= 2
    /\ CandidateUnreadable(results[1].url)
    /\ results[1].score = 0 /\ ~results[1].is_match
    /\ results[Len(results)].is_match

\* C9: find returns an element that lists the URL of the matching result
\* (the only one collected, hence the first of the sorted list), and None
\* exactly when no collected result matched; without candidates the search
\* returns the empty list and find returns None.
C9_FindResult ==
    /\ spc = "done" =>
          IF HasMatch(results)
          THEN /\ found # None
               /\ found[1] \in 1..Len(images)
               /\ InSeq(results[Len(results)].url, ImgUrls(images[found[1]]))
               /\ returned[FirstMatch(returned)] = results[Len(results)]
          ELSE found = None
    /\ (SearchEnded /\ compare_urls = <<>>) => (returned = <<>> /\ found = None)

\* find returned an element although a candidate that did not match was
\* collected too
C9_Witness ==
    /\ spc = "done"
    /\ found # None
    /\ Len(returned) >= 2

CaptionEntries(found_keywords, k) ==
    Cardinality({i \in 1..Len(found_keywords) :
                    found_keywords[i] \in {pre_image_caption \o k, pre_page_caption \o k}})

\* keyword k is the match of a caption near the image
MatchedNear(k) ==
    /\ c_image
    /\ \E i \in 1..Len(c_captions) :
          /\ c_captions[i].place \in {"parent", "grandparent"}
          /\ Len(c_captions[i].text) > 5
          /\ FirstKeyword(c_captions[i].text) = k
    /\ InSeq(pre_image_caption \o k, c_found)

\* keyword k matches a caption of the page-wide scan
MatchedPageWide(k) ==
    /\ c_page_scanned
    /\ \E i \in 1..Len(c_captions) :
          /\ Len(c_captions[i].text) > 5
          /\ matches_keyword_with_word_boundary(k, c_captions[i].text)

\* C5: a keyword matched both in a caption of the image's parent or
\* grandparent container and in the page-wide caption scan has exactly one
\* caption entry in the list check_caption_elements_for_credits returns.
C5_CaptionDeduplication ==
    cpc = "done" =>
        \A k \in Range(CREDIT_KEYWORDS) :
            (MatchedNear(k) /\ MatchedPageWide(k)) => CaptionEntries(c_found, k) = 1

(***************************************************************************)
(* Properties of the detection pipeline.                                   *)
(***************************************************************************)
DetectEnded == dpc = "done"

\* C1: check_impressum_for_credits is called only when the list accumulated
\* from scrolled text, parents, captions and image OCR is empty; when a
\* primary source gave a keyword the impressum page is never visited.
C1_FallbackGating ==
    /\ impressum_called => primary_keywords = <<>>
    /\ primary_keywords # <<>> => (~impressum_called /\ ~impressum_visited)

\* a run that ended with keywords of the primary sources and no impressum call
C1_Witness ==
    /\ DetectEnded
    /\ primary_keywords # <<>>
    /\ d_results.credit_keywords = primary_keywords
    /\ ~impressum_called
    /\ ~impressum_visited

\* C4: when the image is located neither by URL nor by similarity (and so no
\* primary source gave a keyword), the run still calls the impressum fallback.
C4_FallbackWithoutImage ==
    (DetectEnded /\ located_by = "none" /\ primary_keywords = <<>>) => impressum_called

\* C6: credit_keywords of a returned result holds no two entries with the
\* same keyword and the same source kind (an entry is the source kind's
\* prefix followed by the keyword).
C6_UniquePerSourceKind ==
    DetectEnded =>
        \A i \in 1..Len(d_results.credit_keywords) :
            \A j \in 1..Len(d_results.credit_keywords) :
                i # j => d_results.credit_keywords[i] # d_results.credit_keywords[j]

\* t begins with pre
IsPrefix(pre, t) == Len(pre) <= Len(t) /\ SubSeq(t, 1, Len(pre)) = pre

\* the prefixes of the primary sources, in the order of the sources
SourcePrefixes ==
    <<pre_scrolled, pre_parent, pre_image_caption, pre_page_caption, pre_ocr>>

\* the place of an entry's source in that order; the bare keywords of the
\* impressum come last
SourceRank(kw_entry) ==
    IF \E r \in DOMAIN SourcePrefixes : IsPrefix(SourcePrefixes[r], kw_entry)
    THEN CHOOSE r \in DOMAIN SourcePrefixes : IsPrefix(SourcePrefixes[r], kw_entry)
    ELSE Len(SourcePrefixes) + 1

\* the sources read, in the order they were read
SourcesOf(cons) == [i \in DOMAIN cons |-> cons[i].source]

\* the primary sources are behind the run, which located the image
PrimaryDone ==
    /\ dpc \in {"fallback", "store", "done"}
    /\ image_element # None
    /\ d_results.error = None

KeywordOf(kw_entry) ==
    IF SourceRank(kw_entry) <= Len(SourcePrefixes)
    THEN SubSeq(kw_entry, Len(SourcePrefixes[SourceRank(kw_entry)]) + 1, Len(kw_entry))
    ELSE kw_entry

\* C12: with a non-empty keyword list highlight_url is the page URL, the
\* text-fragment locator and the first matched dictionary keyword with its
\* spaces percent-encoded; with an empty list it is empty.
C12_HighlightReference ==
    (DetectEnded /\ d_results.error = None) =>
        IF d_results.credit_keywords # <<>>
        THEN d_results.highlight_url
                = page_url \o <<"#", ":", "~", ":", "t", "e", "x", "t", "=">> \o EncodeSpaces(KeywordOf(d_results.credit_keywords[1]))
        ELSE d_results.highlight_url = <<>>

\* the keywords of the sources read, in the order they were read
ConsultedKeywords(cons) ==
    LET Keywords(c) == c.keywords
    IN  FlatMap(Keywords, cons)

\* the position of a source in the record of sources read, 0 when it was not read
ConsultedAt(source) ==
    IF \E i \in DOMAIN consulted : consulted[i].source = source
    THEN CHOOSE i \in DOMAIN consulted : consulted[i].source = source
    ELSE 0

\* C13: without an OCR engine the run does not fail: the OCR step adds no
\* keyword, the keywords of the other sources are what the run has, and an
\* impressum page that was read gives the keywords of its text and nothing
\* from OCR.
C13_OcrUnavailable ==
    (~ocr_available /\ ConsultedAt("ocr") # 0) =>
        /\ d_results.error = None
        /\ consulted[ConsultedAt("ocr")].keywords = <<>>
        /\ primary_keywords
              = ConsultedKeywords(SubSeq(consulted, 1, ConsultedAt("ocr") - 1))
        /\ impressum_page_text # None =>
              all_keywords = primary_keywords \o impressum_text_keywords(impressum_page_text)

C13_Witness ==
    /\ ~ocr_available /\ DetectEnded /\ ConsultedAt("ocr") # 0
    /\ image_element[1].src # <<>>
    /\ impressum_page_text # None /\ d_results.credit_keywords # <<>>

\* C14: a source whose reading failed contributes no keyword; the sources
\* after it are read all the same, the keywords of the sources before it stay
\* in the result, and the run does not end with an error.
C14_FailureIsolation ==
    \A i \in DOMAIN consulted :
        consulted[i].failed =>
            /\ consulted[i].keywords = <<>>
            /\ d_results.error = None
            /\ primary_keywords = ConsultedKeywords(consulted)
            /\ dpc \in {"fallback", "store", "done"} =>
                  SourcesOf(consulted)
                      = <<"scrolled", "parents", "near captions", "page captions", "ocr">>
            /\ DetectEnded => IsPrefix(primary_keywords, d_results.credit_keywords)

C14_Witness ==
    /\ DetectEnded /\ Len(consulted) = 5
    /\ consulted[1].failed /\ consulted[2].keywords # <<>>
    /\ consulted[3].keywords # <<>> /\ consulted[4].failed
    /\ consulted[5].keywords # <<>>
    /\ d_results.credit_keywords # <<>>

\* the first result the loop was handed cleared the threshold
FirstResultMatches == Len(results) = 1 /\ results[1].is_match

\* C15: once the first completed result clears the threshold, the search
\* returns without any queued task having to be started: the futures no
\* thread has taken are cancelled, so the pool is left as soon as the running
\* tasks have finished.
C15_EarlyExitBound ==
    /\ [](spc = "shutdown" => Pending = {})
    /\ (FirstResultMatches /\ spc = "cancel") ~> SearchEnded

C15_Witness ==
    /\ SearchEnded /\ FirstResultMatches
    /\ Cardinality({i \in DOMAIN fstate : fstate[i] = "cancelled"}) >= 2

\* a finished batch search on one candidate
SingleCandidateSearch == SearchEnded /\ entry = "batch" /\ Len(compare_urls) = 1

\* C16: a candidate that the search on it alone reports as a match at a
\* threshold is reported as a match at every lower threshold.
C16_ThresholdMonotonicity ==
    SingleCandidateSearch =>
        /\ returned = single_candidate_batch(target_url, compare_urls[1], similarity_threshold)
        /\ HasMatch(returned) =>
              \A t2 \in 0..(similarity_threshold - 1) :
                  calculate_image_similarity(target_url, compare_urls[1], t2)

C16_Witness ==
    /\ SingleCandidateSearch /\ HasMatch(returned)
    /\ similarity_threshold > 0
    /\ returned[1].score < ScoreDen(dhash(download_image_as_pil(target_url)))

\* the images of the model that can be decoded and hashed
DecodableUrls == {u \in CandidateUrls \cup TargetUrls : TargetReadable(u)}

\* the two hashes of what a URL serves
Fingerprint(url) == <<dhash(download_image_as_pil(url)), ahash(download_image_as_pil(url))>>

\* the similarity of each decodable image with itself is 1.0, and it matches
\* itself at every threshold from 0 to 1.0
SelfSimilarityIsOne ==
    \A u \in DecodableUrls :
        /\ avg_similarity(Fingerprint(u)[1], Fingerprint(u)[2],
                          Fingerprint(u)[1], Fingerprint(u)[2])
              = ScoreDen(Fingerprint(u)[1])
        /\ \A t \in 0..ThresholdDen : calculate_image_similarity(u, u, t)

\* whether calculate_image_similarity is true at every threshold from 0 to 1.0
MatchAtEveryThreshold ==
    [t_url \in TargetUrls |->
        [c_url \in CandidateUrls |->
            \A t \in 0..ThresholdDen : calculate_image_similarity(t_url, c_url, t)]]

\* C17: the similarity of a decodable image with itself is 1.0, and a
\* candidate with the target's pixels is returned with score 1.0 and as a
\* match, at every threshold up to 1.0.
C17_SelfSimilarity ==
    /\ SelfSimilarityIsOne
    /\ \A i \in 1..Len(returned) :
          (/\ returned[i].url \in DecodableUrls
           /\ Fingerprint(returned[i].url) = Fingerprint(target_url)) =>
              /\ returned[i].score = ScoreDen(Fingerprint(target_url)[1])
              /\ returned[i].is_match
              /\ MatchAtEveryThreshold[target_url][returned[i].url]

C17_Witness ==
    /\ SearchEnded
    /\ \E i \in 1..Len(returned) :
          /\ returned[i].url # target_url
          /\ Fingerprint(returned[i].url) = Fingerprint(target_url)
          /\ returned[i].is_match

\* C18: every score in the list returned is between 0 and 1, the score of a
\* candidate that could not be downloaded or decoded included.
C18_ScoreRange ==
    \A i \in 1..Len(returned) :
        /\ returned[i].score >= 0
        /\ returned[i].score <= ScoreDen(Fingerprint(target_url)[1])

C18_Witness ==
    /\ SearchEnded
    /\ \E i \in 1..Len(returned) : CandidateUnreadable(returned[i].url)
    /\ \E i \in 1..Len(returned) :
          /\ returned[i].score > 0
          /\ returned[i].score < ScoreDen(Fingerprint(target_url)[1])

\* the keywords of a list, as a set
KeywordSet(keywords) == {keywords[i] : i \in DOMAIN keywords}

\* the keyword loop ran over the text "Image credit: Getty Images"
ImageCreditTextRead == dpc \in {"store", "done"} /\ impressum_page_text = txt_image_credit

\* C19 as stated: on the text "Image credit: Getty Images" the dictionary
\* keywords that match under the boundary rule are exactly {"getty"}.
C19_OnlyGetty ==
    ImageCreditTextRead => KeywordSet(all_keywords) = {kw_getty}

\* C19: on the text "Image credit: Getty Images" the dictionary keywords that
\* match under the boundary rule are "getty" and "getty images", collected
\* in dictionary order.
C19_GettyAndGettyImages ==
    ImageCreditTextRead =>
        /\ all_keywords = <<kw_getty, kw_getty_images>>
        /\ KeywordSet(all_keywords) = {kw_getty, kw_getty_images}

C19_Witness ==
    /\ DetectEnded /\ impressum_page_text = txt_image_credit
    /\ KeywordSet(d_results.credit_keywords) = {kw_getty, kw_getty_images}

\* the bits in which two hex digits differ
DigitBitDifference(a, b) ==
    Cardinality({k \in 0..3 : (a \div (2 ^ k)) % 2 # (b \div (2 ^ k)) % 2})

RECURSIVE BitDifferenceFrom(_, _, _)
BitDifferenceFrom(hash1, hash2, i) ==
    IF i > Len(hash1) THEN 0
    ELSE DigitBitDifference(hash1[i], hash2[i]) + BitDifferenceFrom(hash1, hash2, i + 1)

\* the number of bits in which two hashes of one length differ
BitHammingDistance(hash1, hash2) == BitDifferenceFrom(hash1, hash2, 1)

\* the candidates a thread has compared with the target, hash by hash
Compared == {i \in DOMAIN fresult : ~CandidateUnreadable(compare_urls[i])}

\* C21: hamming_distance of two hashes of one length is the number of bits in
\* which they differ (0 to 64 for the hashes of dhash and ahash), and the
\* infinite distance when the lengths differ.
C21_BitHamming ==
    /\ \A i \in Compared :
          /\ hamming_distance(Fingerprint(target_url)[1], Fingerprint(compare_urls[i])[1])
                = BitHammingDistance(Fingerprint(target_url)[1],
                                     Fingerprint(compare_urls[i])[1])
          /\ hamming_distance(Fingerprint(target_url)[2], Fingerprint(compare_urls[i])[2])
                = BitHammingDistance(Fingerprint(target_url)[2],
                                     Fingerprint(compare_urls[i])[2])
    /\ \A i \in DOMAIN fresult :
          hamming_distance(Fingerprint(target_url)[1],
                           SubSeq(Fingerprint(target_url)[1], 1, HexLen - 1)) = Infinity

\* the mean over both hashes of 1 - (bit distance / bit length), as the
\* numerator over ScoreDen: the bit length of a hash is 4 * Len = max_distance
BitScore(target, compare_url) ==
    (max_distance(Fingerprint(target)[1])
        - BitHammingDistance(Fingerprint(target)[1], Fingerprint(compare_url)[1]))
    + (max_distance(Fingerprint(target)[2])
        - BitHammingDistance(Fingerprint(target)[2], Fingerprint(compare_url)[2]))

\* C22: the score of a hashed candidate is the mean, over the difference hash
\* and the average hash, of 1 - (bit Hamming distance / bit length); hashes
\* that differ in every bit score 0.0, in half of the bits 0.5.
C22_MeanOfBitSimilarities ==
    \A i \in 1..Len(returned) :
        ~CandidateUnreadable(returned[i].url) =>
            returned[i].score = BitScore(target_url, returned[i].url)

\* the scroll method has just run to its end
ScrollMethodRan ==
    dpc = "captions" /\ ConsultedAt("scrolled") # 0
        /\ ~consulted[ConsultedAt("scrolled")].failed

\* C23: a scrolled text element that holds several distinct dictionary
\* keywords gives one entry for each of them, and one only: over the list,
\* each keyword has as many "Scrolled Text" entries as there are collected
\* elements it matches.
C23_EntryPerKeywordOfElement ==
    ScrollMethodRan =>
        \A i \in DOMAIN CREDIT_KEYWORDS :
            CountIn(consulted[ConsultedAt("scrolled")].keywords,
                    pre_scrolled \o CREDIT_KEYWORDS[i])
                = Cardinality({j \in DOMAIN all_texts : EntryMatches(i, all_texts[j])})

\* C24: after the loop was handed the first matching result at most one more
\* task begins to run, and a task that begins then has no part in the list
\* returned.
C24_AtMostOneLateStart ==
    /\ Cardinality(late_started) <= 1
    /\ SearchEnded => \A i \in late_started : i \notin yielded

\* C25: in every tuple returned, is_match is true exactly when the score is
\* at least the threshold the caller passed, the tuples of candidates that
\* could not be decoded (score 0.0) included.
C25_IsMatchIffScoreAtLeastThreshold ==
    \A i \in 1..Len(returned) :
        returned[i].is_match
            = MeetsThreshold(returned[i].score, Fingerprint(target_url)[1],
                             similarity_threshold)

\* C25: in every tuple returned for a candidate that was hashed, is_match is
\* true exactly when the score is at least the threshold the caller passed;
\* the tuple of a candidate that could not be downloaded or hashed has score
\* 0.0 and is_match false at every threshold, a threshold of 0 included.
C25_IsMatchOfHashedCandidates ==
    \A i \in 1..Len(returned) :
        IF CandidateUnreadable(returned[i].url)
        THEN returned[i].score = 0 /\ ~returned[i].is_match
        ELSE returned[i].is_match
                = (returned[i].score * ThresholdDen
                      >= similarity_threshold * ScoreDen(Fingerprint(target_url)[1]))

C25_Witness ==
    /\ SearchEnded /\ similarity_threshold = 0
    /\ \E i \in 1..Len(returned) : CandidateUnreadable(returned[i].url)
    /\ \E i \in 1..Len(returned) :
          returned[i].is_match /\ returned[i].score < ScoreDen(Fingerprint(target_url)[1])

\* the image was looked for
LocateDone == dpc \in {"parents", "captions", "ocr", "fallback", "store", "done"}
                 /\ locate_calls # <<>>

\* C26: the exact URL match is tried first and the similarity search runs only
\* when it returned no element; when the exact match gives an element there
\* is no similarity search and image_found is set.
C26_ExactMatchFirst ==
    LocateDone =>
        /\ locate_calls[1].by = "url"
        /\ Len(locate_calls) <= 2
        /\ Len(locate_calls) = 2 =>
              /\ locate_calls[2].by = "similarity"
              /\ ~locate_calls[1].hit
        /\ locate_calls[1].hit =>
              /\ Len(locate_calls) = 1
              /\ located_by = "url"
              /\ d_results.image_found
              /\ image_element # None
        /\ ~locate_calls[1].hit => Len(locate_calls) = 2

C26_Witness ==
    /\ DetectEnded /\ locate_calls # <<>>
    /\ locate_calls[1].hit /\ Len(locate_calls) = 1
    /\ d_results.image_found /\ d_results.credit_keywords # <<>>

\* the submitted candidates that clear the threshold
Qualifiers ==
    {i \in 1..Len(compare_urls) :
        check_single_similarity(compare_urls[i],
                                Fingerprint(target_url)[1], Fingerprint(target_url)[2],
                                similarity_threshold).is_match}

\* find on a page with candidates and a readable target has ended
FindEnded == entry = "find" /\ spc = "done" /\ compare_urls # <<>>
                /\ TargetReadable(target_url)

\* C27: with exactly one submitted candidate that clears the threshold find
\* returns the element of that candidate, in whatever order the tasks
\* complete; with none it returns None.  What find returns can differ between
\* two runs only when two or more candidates clear the threshold.
C27_UniqueQualifier ==
    FindEnded =>
        /\ Cardinality(Qualifiers) = 1 =>
              found = url_to_element(images, compare_urls[CHOOSE i \in Qualifiers : TRUE])
        /\ Qualifiers = {} => found = None

C27_Witness ==
    /\ FindEnded /\ Cardinality(Qualifiers) = 1
    /\ Len(compare_urls) >= 3
    /\ (CHOOSE i \in Qualifiers : TRUE) = Len(compare_urls)
    /\ Len(returned) = 1
    /\ found # None

\* the rows of the calls that have completed
CompletedRows == {row_data(p, n) : p \in SaveProcs, n \in 1..MaxCalls} \cap
                 UNION {{row_data(p, n) : n \in 1..save_calls[p]} : p \in DOMAIN save_calls}

RECURSIVE SumCalls(_)
SumCalls(P) == IF P = {} THEN 0
               ELSE LET p == CHOOSE q \in P : TRUE IN save_calls[p] + SumCalls(P \ {p})

\* no call of save_case_to_daily_csv is under way
SaveQuiescent == \A p \in DOMAIN save_pc : save_pc[p] = "idle"

\* C28: the row of every completed call of save_case_to_daily_csv is in the
\* daily CSV, whatever the other processes do and whether or not the file
\* existed at the first call; when no call is under way after n completed
\* calls the file holds the header and n rows.
C28_NoLostRows ==
    /\ \A r \in CompletedRows : InSeq(r, DictReaderRows(daily_lines))
    /\ (SaveQuiescent /\ CompletedRows # {}) =>
          /\ daily_exists
          /\ daily_lines[1] = HeaderLine
          /\ Len(daily_lines) = 1 + SumCalls(DOMAIN save_calls)

\* the processes inside the read-merge-write section of safe_update_overall_csv
InUpdateSection == {p \in DOMAIN upd_pc : upd_pc[p] \in {"read", "write"}}

\* C29: at most one process at a time is inside the read-merge-write section
\* of safe_update_overall_csv, whatever the callers do: take the lock, fail
\* to take it, wait and retry, give up, and remove the lock file on exit.
C29_MutualExclusion == Cardinality(InUpdateSection) <= 1

\* the hits of the input CSV
InputHits == {input_csv[i].hit_key : i \in DOMAIN input_csv}

\* the rows that were recorded, with an error_status, for a hit of the input
\* CSV when the run started
RecordedBefore ==
    {output_before[i] : i \in {j \in DOMAIN output_before :
                                   /\ output_before[j].error_status # ""
                                   /\ output_before[j].hit_key \in InputHits}}

\* a run of process_hits has ended: at its end, or by an interruption after
\* it had handled at least one of the input rows
RunEnded == hpc = "idle" /\ h_run > 0 /\ (run_completed \/ h_idx > 1)

\* the same for the runs that reached their end
C30_CompletedRunKeepsRows ==
    (RunEnded /\ run_completed) => \A r \in RecordedBefore : InSeq(r, output_csv)

\* C30: a hit of the input CSV that the output CSV records with a non-empty
\* error_status is not checked again by a later run of process_hits, and its
\* row is in the output CSV, unchanged, after that run, whether the run
\* reached its end or was interrupted.
C30_Resumable ==
    /\ \A r \in RecordedBefore : r.hit_key \notin checked_hits
    /\ RunEnded => \A r \in RecordedBefore : InSeq(r, output_csv)

(***************************************************************************)
(* Properties of the keyword matcher.                                      *)
(***************************************************************************)
\* the two characters are there and one is a word character, the other not
Transition(t, p) == p >= 1 /\ p + 1 <= Len(t) /\ IsWordChar(t[p]) # IsWordChar(t[p + 1])

\* k, case-folded, occurs in the case-folded text at position s, and on each
\* side of the occurrence the text starts or ends or has a transition
\* between a word character and a non-word character
BoundedOccurrence(k, t, s) ==
    /\ s + Len(k) - 1 <= Len(t)
    /\ SubSeq(Lower(t), s, s + Len(k) - 1) = Lower(k)
    /\ s = 1 \/ Transition(t, s - 1)
    /\ s + Len(k) - 1 = Len(t) \/ Transition(t, s + Len(k) - 1)

\* C3: for every dictionary keyword k and every text, the matcher returns
\* true iff k, case-folded, occurs in the case-folded text with a word
\* boundary on both sides; "vii" does not match inside "viitoare" and matches
\* "(vii)", "vii," and "vii ".
C3_WordBoundaryMatch ==
    mpc = "done" =>
        /\ m_result = (\E s \in 1..Len(m_text) : BoundedOccurrence(m_keyword, m_text, s))
        /\ (m_keyword = kw_vii /\ m_text \in {txt_viitoare}) => ~m_result
        /\ (m_keyword = kw_vii
              /\ m_text \in {txt_vii_paren, txt_vii_comma, txt_vii_space, txt_photo_vii})
             => m_result

\* the matcher refused "vii" in a text that holds it followed by a letter
C3_Witness ==
    /\ mpc = "done"
    /\ m_keyword = kw_vii
    /\ m_text = txt_viitoare
    /\ ~m_result

\* C20: contains_credit reports a keyword only when the text holds it with a
\* word boundary on both sides: never one whose occurrences all lie inside a
\* larger word.
C20_ContainsCreditBoundary ==
    (mpc = "contains_done" /\ m_credit.found) =>
        \E s \in 1..Len(m_text) : BoundedOccurrence(m_credit.keyword, m_text, s)

=============================================================================
